---- MODULE Spec2Model ----
(***************************************************************************)
(* Referral_Workflow: a browser dashboard over a remote relational store.  *)
(*                                                                         *)
(* The module holds one state machine per screen of the application, each  *)
(* with its own specification over the shared variables:                   *)
(*                                                                         *)
(*   SpecAuth      session provider, access provider, AuthGate, routes     *)
(*   SpecTable     the referral table page (load, editor, save, archive)   *)
(*   SpecUpdates   the referral provider updates page (drafts, send)       *)
(*   SpecEmail     buildEmailForStatus as a pure function                  *)
(*   SpecSettings  the provider directory of the Table settings page       *)
(*                                                                         *)
(* Remote calls are two steps: the handler that issues the request and     *)
(* the continuation that runs when the answer arrives.  A remote answer    *)
(* is a nondeterministic choice between an error and the data held by the  *)
(* modelled remote table.                                                  *)
(***************************************************************************)
EXTENDS Integers, Sequences, FiniteSets, TLC

VARIABLES
    \* ---- authentication service, session provider, access provider, router
    authUser,         \* the auth service's signed-in user ("none" or a user id)
    userAccessRow,    \* the user's row of the remote user_access table (None or Some)
    session,          \* SupabaseAuthProvider: session state
    isLoading,        \* SupabaseAuthProvider: isLoading state
    authInitPending,  \* the provider's first getSession() has not answered yet
    access,           \* AccessProvider: access state (None or Some)
    loading,          \* AccessProvider: loading state
    refreshes,        \* AccessProvider: refresh() calls in flight
    path,             \* router: location.pathname
    urlReason,        \* the ?reason= of the last window.location.replace
    hasRecovery,      \* the URL carries recovery tokens (hash or query)
    \* ---- buildEmailForStatus, applied to one argument record
    mailArgs,         \* args: status, providerName, practiceName, patients
    mailOut,          \* None, or Some of the returned { subject, body }
    \* ---- remote store
    dbProviders,      \* table referral_providers, in the order the store answers
    \* ---- referral provider updates page
    updRemoteRows,    \* table referrals_colonoscopy_egd: the selected week's active rows
    updReloadPending, \* the mount effect's reloadRows() has not answered yet
    updRows,          \* rows state
    updLoading,       \* loading state
    updError,         \* error state
    activeStatusTab,
    providerById,
    isEmailUpdatesOpen,
    isSendEmailModalOpen,
    sendEmailTo,
    sendEmailSubject,
    sendEmailBody,
    sendEmailProviderId,
    isSendingEmail,
    sendEmailError,
    sendEmailSuccess,
    emailSentAtByRowId,
    sends,            \* Send handlers in flight: what each captured, and its await
    \* ---- Table settings page: provider directory
    providers,
    originalProviders,
    existingPracticeSelected,
    savingProviderId,
    providerError,
    providerSuccess,
    editProvider,     \* None, or Some of editProviderId and the edit drafts
    editProviderModalError,
    provRefreshes,    \* refreshProviders() calls in flight outside a save
    provSaves,        \* saveProviderRow calls in flight: id, update payload, await
    provClock,        \* the instants new Date() has answered to saveProviderRow
    \* ---- referral table page
    dbReferrals,      \* the remote referral tables, by specialty, oldest row first
    activeSpecialty,
    tblRows,          \* rows state
    isRowsLoading,
    tblRowsError,     \* rowsError state
    saveError,
    providerOptions,
    isEditorOpen,
    editingId,
    editorSpecialty,
    tblDraft,         \* draft state
    providerLoadPending, \* the mount effect's directory query has not answered yet
    rowLoads,         \* row queries in flight: the specialty asked for, isMounted
    saves,            \* saveDraft writes in flight: the payload and what the closure holds
    archives,         \* archiveRow writes in flight: the row id and the table
    tblClicks,        \* the number of clicks and form fills the user has made
    \* ---- referral table page: search, date filter, sort, freeze, CSV
    timeZoneOffset,   \* the browser's zone: hours east of UTC
    searchBy,
    searchText,
    dateFilterKey,
    dateFrom,
    dateTo,
    sortBy,
    sortDir,
    pinnedKeys,
    csvFile,          \* the last file downloadCsv has made: None, or Some of its lines
    \* ---- reports page
    allRows,
    repDateFrom,      \* dateFrom state of the reports page
    repDateTo,        \* dateTo state of the reports page
    specialtyFilter,
    isLoadingRows,    \* the reports page waits for its rows
    repRowsError,     \* rowsError state of the reports page
    \* -- the schema helpers of the referral table page, called on their own
    helperName,       \* the helper called last, "" before the first call
    helperInput,      \* the schema it was given
    helperOutput,     \* the schema it returned
    helperCalls,      \* calls made so far
    \* ---- notepad page: one location_notepad row, one NotepadEditor per session
    npStored,         \* the row of the location: None, or Some [note_body, edit_history]
    npText,           \* per session: text state
    npLoadedText,     \* per session: loadedText state
    npHistory,        \* per session: history state
    npIsLoading,
    npIsSaving,
    npError,
    npLoadPending,    \* per session: the query of the load effect is in flight
    npCall,           \* per session: None, or the saveNote / clearAll call in flight
    npClock,          \* entries made so far, the ts of the next one
    \* ---- user management page
    uaTable,          \* remote table user_access, ordered by user_id
    umRows,           \* rows state
    umOriginalRows,   \* originalRows state, as a function of the user ids it holds
    umIsLoading,
    umError,
    umSuccess,
    umSavingUserId,
    isAddOpen,
    addEmail,
    addRole,
    addLocation,
    addStatus,
    addError,
    isAdding,
    umLoads,          \* load() calls whose query is in flight
    umSaves,          \* saveRow calls whose upsert is in flight
    umInvite,         \* None, or the inviteUser call in flight
    umClicks          \* steps of the user so far

authVars == <<authUser, userAccessRow, session, isLoading, authInitPending,
              access, loading, refreshes, path, urlReason, hasRecovery>>

mailVars == <<mailArgs, mailOut>>

dbVars == <<dbProviders>>

updVars == <<updRemoteRows, updReloadPending, updRows, updLoading, updError,
             activeStatusTab, providerById, isEmailUpdatesOpen, isSendEmailModalOpen,
             sendEmailTo, sendEmailSubject, sendEmailBody, sendEmailProviderId,
             isSendingEmail, sendEmailError, sendEmailSuccess, emailSentAtByRowId,
             sends>>

setVars == <<providers, originalProviders, existingPracticeSelected, savingProviderId,
             providerError, providerSuccess, editProvider, editProviderModalError,
             provRefreshes, provSaves, provClock>>

tblVars == <<dbReferrals, activeSpecialty, tblRows, isRowsLoading, tblRowsError, saveError,
             providerOptions, isEditorOpen, editingId, editorSpecialty, tblDraft,
             providerLoadPending, rowLoads, saves, archives, tblClicks>>

viewVars == <<timeZoneOffset, searchBy, searchText, dateFilterKey, dateFrom, dateTo,
              sortBy, sortDir, pinnedKeys, csvFile>>

repVars == <<allRows, repDateFrom, repDateTo, specialtyFilter, isLoadingRows, repRowsError>>

schVars == <<helperName, helperInput, helperOutput, helperCalls>>

noteVars == <<npStored, npText, npLoadedText, npHistory, npIsLoading, npIsSaving, npError,
              npLoadPending, npCall, npClock>>

umVars == <<uaTable, umRows, umOriginalRows, umIsLoading, umError, umSuccess, umSavingUserId,
            isAddOpen, addEmail, addRole, addLocation, addStatus, addError, isAdding,
            umLoads, umSaves, umInvite, umClicks>>

vars == <<authVars, mailVars, dbVars, updVars, setVars, tblVars, viewVars, repVars, schVars,
          noteVars, umVars>>

\* What each screen leaves alone.
AuthFrame == UNCHANGED <<mailVars, dbVars, updVars, setVars, tblVars, viewVars, repVars, schVars,
                         noteVars, umVars>>
MailFrame == UNCHANGED <<authVars, dbVars, updVars, setVars, tblVars, viewVars, repVars, schVars,
                         noteVars, umVars>>
UpdFrame == UNCHANGED <<authVars, mailVars, dbVars, setVars, tblVars, viewVars, repVars, schVars,
                        noteVars, umVars>>
SetFrame == UNCHANGED <<authVars, mailVars, updVars, tblVars, viewVars, repVars, schVars,
                        noteVars, umVars>>
PageFrame == UNCHANGED <<authVars, mailVars, dbVars, updVars, setVars, repVars, schVars,
                         noteVars, umVars>>
TblFrame == PageFrame /\ UNCHANGED viewVars
RepFrame == UNCHANGED <<authVars, mailVars, dbVars, updVars, setVars, tblVars, viewVars,
                        schVars, noteVars, umVars>>

\* ---------------------------------------------------------------- values

None == <<>>
Some(x) == <<x>>

\* String.prototype.trim on the strings the model uses.
Trim(s) ==
    CASE s = " Disabled " -> "Disabled"
      [] s = "  " -> ""
      [] s = " Dr Adams " -> "Dr Adams"
      [] s = " a@x.org" -> "a@x.org"
      [] s = " z@x.org" -> "z@x.org"
      [] s = " Dr Zed " -> "Dr Zed"
      [] s = " ANN " -> "ANN"
      [] OTHER -> s

\* String.prototype.toLowerCase on the strings the model uses.
ToLowerCase(s) ==
    CASE s = "Disabled" -> "disabled"
      [] s = "Al" -> "al"
      [] s = "Bob" -> "bob"
      [] s = "Cy" -> "cy"
      [] s = "ANN" -> "ann"
      [] s = "Ann Lee" -> "ann lee"
      [] s = "Bo Diaz" -> "bo diaz"
      [] s = "Cy Moss" -> "cy moss"
      [] OTHER -> s

\* ------------------------------------------------------------ permissions

Roles == {"admin", "editor", "guest"}

canEdit(role) == role = "admin" \/ role = "editor"

canAdmin_AlsoEditor(role) == role = "admin" \/ role = "editor"

canAdmin(role) == role = "admin"

\* access?.role
RoleOf(acc) == IF acc = None THEN "undefined" ELSE acc[1].role

\* --------------------------------------------------- bounds of the model

MaxRefresh == 2

\* ------------------------------------------------------ fetchUserAccess

RawStatuses == {"active", "disabled", " Disabled ", ""}

\* data: the row maybeSingle() answered (None when the user has no row).
\* The answer is an object in every case without error: spreading a null
\* row gives { status: 'active' }.
fetchUserAccess(sessionError, userId, queryError, data) ==
    IF sessionError THEN None
    ELSE IF userId = "none" THEN None
    ELSE IF queryError THEN None
    ELSE LET statusRaw == ToLowerCase(Trim(IF data = None THEN "" ELSE data[1].status))
             status == IF statusRaw = "disabled" THEN "disabled" ELSE "active"
         IN  Some([role |-> IF data = None THEN "undefined" ELSE data[1].role,
                   status |-> status])

\* -------------------------------------------------------------- routing

Paths == {"/", "/auth/callback", "/auth_callback", "/set-password",
          "/reports", "/table-settings", "/user-management", "/unknown"}

AdminPaths == {"/table-settings", "/user-management"}

allowUnauthed_AlsoRoot(p) ==
    p = "/auth/callback" \/ p = "/auth_callback" \/ p = "/set-password" \/ p = "/"

allowUnauthed(p) ==
    p = "/auth/callback" \/ p = "/auth_callback" \/ p = "/set-password"

\* What AuthGate returns.
AuthGate(ld, sess, p) ==
    IF ld THEN "Loading"
    ELSE IF sess = "none"
         THEN (IF allowUnauthed(p) THEN "children" ELSE "SignInPage")
         ELSE "children"

\* What AdminRoute returns around its child page.
AdminRoute(ld, acc, children) ==
    IF ld THEN "null"
    ELSE IF canAdmin(RoleOf(acc)) THEN children ELSE "Navigate"

\* The element App's <Routes> renders for a path.
App(p) ==
    CASE p = "/auth/callback" -> "AuthCallbackPage"
      [] p = "/auth_callback" -> "AuthCallbackPage"
      [] p = "/set-password" -> "SetPasswordPage"
      [] p = "/" -> "ReferralTablePage"
      [] p = "/reports" -> "ReportsPage"
      [] p = "/table-settings" -> AdminRoute(loading, access, "TableSettingsPage")
      [] p = "/user-management" -> AdminRoute(loading, access, "UserManagementPage")
      [] OTHER -> "Navigate"

\* What the root render shows: <AuthGate><App/></AuthGate>.
Rendered ==
    IF AuthGate(isLoading, session, path) = "children"
    THEN App(path)
    ELSE AuthGate(isLoading, session, path)

\* AppHeader: the two admin entries of the navigation menu are rendered.
NavShowsAdminEntries == session # "none" /\ canAdmin(RoleOf(access))

ApplicationPages == {"ReferralTablePage", "ReportsPage", "TableSettingsPage",
                     "UserManagementPage"}

\* ------------------------------------------------ idle screens

MailIdle ==
    /\ mailArgs = [status |-> "", providerName |-> "", practiceName |-> "", patients |-> <<>>]
    /\ mailOut = None

DbIdle == dbProviders = <<>>

UpdIdle ==
    /\ updRemoteRows = <<>>
    /\ updReloadPending = FALSE
    /\ updRows = <<>>
    /\ updLoading = FALSE
    /\ updError = None
    /\ activeStatusTab = "APPT_SCHEDULED"
    /\ providerById = <<>>
    /\ isEmailUpdatesOpen = FALSE
    /\ isSendEmailModalOpen = FALSE
    /\ sendEmailTo = ""
    /\ sendEmailSubject = ""
    /\ sendEmailBody = <<>>
    /\ sendEmailProviderId = None
    /\ isSendingEmail = FALSE
    /\ sendEmailError = None
    /\ sendEmailSuccess = None
    /\ emailSentAtByRowId = <<>>
    /\ sends = <<>>

SetIdle ==
    /\ providers = <<>>
    /\ originalProviders = <<>>
    /\ existingPracticeSelected = ""
    /\ savingProviderId = None
    /\ providerError = None
    /\ providerSuccess = None
    /\ editProvider = None
    /\ editProviderModalError = None
    /\ provRefreshes = 0
    /\ provSaves = <<>>
    /\ provClock = 0

TblIdle ==
    /\ dbReferrals = <<>>
    /\ activeSpecialty = "Colonoscopy and EGD"
    /\ tblRows = <<>>
    /\ isRowsLoading = FALSE
    /\ tblRowsError = None
    /\ saveError = None
    /\ providerOptions = <<>>
    /\ isEditorOpen = FALSE
    /\ editingId = None
    /\ editorSpecialty = "Colonoscopy and EGD"
    /\ tblDraft = <<>>
    /\ providerLoadPending = FALSE
    /\ rowLoads = <<>>
    /\ saves = <<>>
    /\ archives = <<>>
    /\ tblClicks = 0

\* The view state of the table page as useState makes it, in a browser
\* whose zone is UTC; dateFilterKey starts as defaultDateKey of the first
\* specialty.
ViewIdle ==
    /\ timeZoneOffset = 0
    /\ searchBy = "__all__"
    /\ searchText = ""
    /\ dateFilterKey = "dateReferralReceived"
    /\ dateFrom = ""
    /\ dateTo = ""
    /\ sortBy = "__none__"
    /\ sortDir = "asc"
    /\ pinnedKeys = <<>>
    /\ csvFile = None

RepIdle ==
    /\ allRows = <<>>
    /\ repDateFrom = ""
    /\ repDateTo = ""
    /\ specialtyFilter = "__all__"
    /\ isLoadingRows = FALSE
    /\ repRowsError = None

SchIdle ==
    /\ helperName = ""
    /\ helperInput = <<>>
    /\ helperOutput = <<>>
    /\ helperCalls = 0

\* The sessions that have the notepad of the location open.
NoteSessions == {"admin", "user"}

NoteIdle ==
    /\ npStored = None
    /\ npText = [u \in NoteSessions |-> ""]
    /\ npLoadedText = [u \in NoteSessions |-> ""]
    /\ npHistory = [u \in NoteSessions |-> <<>>]
    /\ npIsLoading = [u \in NoteSessions |-> FALSE]
    /\ npIsSaving = [u \in NoteSessions |-> FALSE]
    /\ npError = [u \in NoteSessions |-> None]
    /\ npLoadPending = [u \in NoteSessions |-> FALSE]
    /\ npCall = [u \in NoteSessions |-> None]
    /\ npClock = 0

UmIdle ==
    /\ uaTable = <<>>
    /\ umRows = <<>>
    /\ umOriginalRows = <<>>
    /\ umIsLoading = FALSE
    /\ umError = None
    /\ umSuccess = None
    /\ umSavingUserId = None
    /\ isAddOpen = FALSE
    /\ addEmail = ""
    /\ addRole = "guest"
    /\ addLocation = ""
    /\ addStatus = "active"
    /\ addError = None
    /\ isAdding = FALSE
    /\ umLoads = 0
    /\ umSaves = <<>>
    /\ umInvite = None
    /\ umClicks = 0

\* ------------------------------------------------ auth: initial state

NewRefresh == [pc |-> "getSession", reason |-> ""]

AuthInit ==
    /\ authUser \in {"none", "u1"}
    /\ userAccessRow \in
         {None} \cup {Some([role |-> r, status |-> s]) : r \in Roles, s \in RawStatuses}
    /\ session = "none"
    /\ isLoading = TRUE
    /\ authInitPending = TRUE
    /\ access = None
    /\ loading = TRUE
    /\ refreshes = <<NewRefresh>>
    /\ path \in Paths
    /\ urlReason = ""
    /\ hasRecovery \in BOOLEAN
    /\ MailIdle /\ DbIdle /\ UpdIdle /\ SetIdle /\ TblIdle /\ ViewIdle /\ RepIdle /\ SchIdle
    /\ NoteIdle /\ UmIdle

\* The other screens' view of the signed-in user, when they are modelled alone.
AuthIdle ==
    /\ authUser = "u1"
    /\ userAccessRow = None
    /\ session = "u1"
    /\ isLoading = FALSE
    /\ authInitPending = FALSE
    /\ access = None
    /\ loading = FALSE
    /\ refreshes = <<>>
    /\ path = "/"
    /\ urlReason = ""
    /\ hasRecovery = FALSE

RemoveAt(s, i) == SubSeq(s, 1, i - 1) \o SubSeq(s, i + 1, Len(s))

\* refresh() up to its first await: setLoading(true), getSession() issued.
StartRefresh(rs) == Append(rs, NewRefresh)

\* ------------------------------------------------ auth: session provider

\* The provider's first getSession() answers.
AuthGetSessionResolved ==
    /\ authInitPending
    /\ authInitPending' = FALSE
    /\ \E error \in BOOLEAN :
         session' = IF error THEN "none" ELSE authUser
    /\ isLoading' = FALSE
    /\ UNCHANGED <<authUser, userAccessRow, access, loading, refreshes, path,
                   urlReason, hasRecovery>>
    /\ AuthFrame

\* onAuthStateChange, both listeners: the session provider stores the next
\* session, the access provider starts a refresh.
AuthStateChange(nextUser) ==
    /\ Len(refreshes) < MaxRefresh
    /\ authUser' = nextUser
    /\ session' = nextUser
    /\ isLoading' = FALSE
    /\ loading' = TRUE
    /\ refreshes' = StartRefresh(refreshes)
    /\ UNCHANGED <<userAccessRow, authInitPending, access, path, urlReason, hasRecovery>>
    /\ AuthFrame

SignIn == authUser = "none" /\ AuthStateChange("u1")

SignOut == authUser # "none" /\ AuthStateChange("none")

TokenRefreshed == authUser # "none" /\ AuthStateChange(authUser)

\* ------------------------------------------------ auth: AccessProvider.refresh

\* after `await supabase.auth.getSession()`
RefreshAfterGetSession(i) ==
    /\ refreshes[i].pc = "getSession"
    /\ \E sessionError \in BOOLEAN :
         IF sessionError \/ authUser = "none"
         THEN /\ access' = None
              /\ loading' = FALSE
              /\ refreshes' = RemoveAt(refreshes, i)
         ELSE /\ refreshes' = [refreshes EXCEPT ![i].pc = "fetchUserAccess"]
              /\ UNCHANGED <<access, loading>>
    /\ UNCHANGED <<authUser, userAccessRow, session, isLoading, authInitPending,
                   path, urlReason, hasRecovery>>
    /\ AuthFrame

\* after `await fetchUserAccess()`
RefreshAfterFetch(i) ==
    /\ refreshes[i].pc = "fetchUserAccess"
    /\ \E sessionError \in BOOLEAN, queryError \in BOOLEAN :
         LET ua == fetchUserAccess(sessionError, authUser, queryError, userAccessRow)
         IN  IF ua = None \/ ua[1].status = "disabled"
             THEN /\ refreshes' =
                       [refreshes EXCEPT ![i] =
                          [pc |-> "signOut",
                           reason |-> IF ua = None THEN "no_access" ELSE "disabled"]]
                  /\ UNCHANGED <<access, loading>>
             ELSE /\ access' = ua
                  /\ loading' = FALSE
                  /\ refreshes' = RemoveAt(refreshes, i)
    /\ UNCHANGED <<authUser, userAccessRow, session, isLoading, authInitPending,
                   path, urlReason, hasRecovery>>
    /\ AuthFrame

\* after `await supabase.auth.signOut()`: the service has dropped the session
\* (the session provider's listener stored it), and
\* window.location.replace reloads the application at '/?reason=...'.
RefreshAfterSignOut(i) ==
    /\ refreshes[i].pc = "signOut"
    /\ authUser' = "none"
    /\ session' = "none"
    /\ isLoading' = TRUE
    /\ authInitPending' = TRUE
    /\ access' = None
    /\ loading' = TRUE
    /\ refreshes' = <<NewRefresh>>
    /\ path' = "/"
    /\ urlReason' = refreshes[i].reason
    /\ hasRecovery' = FALSE
    /\ UNCHANGED userAccessRow
    /\ AuthFrame

\* ------------------------------------------------ auth: router

\* The user follows a link or a menu entry.
NavigateTo(p) ==
    /\ path' = p
    /\ hasRecovery' = FALSE
    /\ UNCHANGED <<authUser, userAccessRow, session, isLoading, authInitPending,
                   access, loading, refreshes, urlReason>>
    /\ AuthFrame

\* AuthGate's effect: a recovery URL outside the callback pages is sent to
\* /auth/callback with its query and hash kept.
AuthGateRecoveryEffect ==
    /\ hasRecovery
    /\ path # "/set-password"
    /\ path # "/auth/callback" /\ path # "/auth_callback"
    /\ path' = "/auth/callback"
    /\ UNCHANGED <<authUser, userAccessRow, session, isLoading, authInitPending,
                   access, loading, refreshes, urlReason, hasRecovery>>
    /\ AuthFrame

\* A rendered <Navigate to="/" replace /> (AdminRoute's, or the "*" route's).
NavigateElementEffect ==
    /\ Rendered = "Navigate"
    /\ path' = "/"
    /\ UNCHANGED <<authUser, userAccessRow, session, isLoading, authInitPending,
                   access, loading, refreshes, urlReason, hasRecovery>>
    /\ AuthFrame

AuthNext ==
    \/ AuthGetSessionResolved
    \/ SignIn
    \/ SignOut
    \/ TokenRefreshed
    \/ \E i \in 1..Len(refreshes) : RefreshAfterGetSession(i)
    \/ \E i \in 1..Len(refreshes) : RefreshAfterFetch(i)
    \/ \E i \in 1..Len(refreshes) : RefreshAfterSignOut(i)
    \/ \E p \in Paths : NavigateTo(p)
    \/ AuthGateRecoveryEffect
    \/ NavigateElementEffect

SpecAuth == AuthInit /\ [][AuthNext]_vars

\* ------------------------------------------------ auth: claims

\* C2: the admin-only routes /table-settings and /user-management render
\* their page only when the access lookup has finished and the role is
\* 'admin'; while the lookup is loading they render nothing; for every other
\* role they render the redirect to '/'.  The navigation menu shows the two
\* admin entries only when the role is 'admin'.
C2_AdminRoutesOnlyForAdmin ==
    /\ (path \in AdminPaths /\ AuthGate(isLoading, session, path) = "children") =>
          /\ loading => Rendered = "null"
          /\ (~loading /\ RoleOf(access) = "admin") =>
                Rendered = (IF path = "/table-settings" THEN "TableSettingsPage"
                                                        ELSE "UserManagementPage")
          /\ (~loading /\ RoleOf(access) # "admin") => Rendered = "Navigate"
    /\ Rendered \in {"TableSettingsPage", "UserManagementPage"} =>
          ~loading /\ RoleOf(access) = "admin" /\ path \in AdminPaths
    /\ NavShowsAdminEntries => RoleOf(access) = "admin"

\* An admin, lookup finished, sees the Table settings page and the menu entries.
C2_Witness ==
    /\ path = "/table-settings"
    /\ Rendered = "TableSettingsPage"
    /\ NavShowsAdminEntries

\* C3: AuthGate never renders an application page without a session: while
\* the session is loading it renders the loading placeholder; loaded without
\* a session it renders the routed children only on /auth/callback,
\* /auth_callback and /set-password and the sign-in page on every other
\* path; with a session it renders the children.
C3_AuthGateNeedsSession ==
    /\ isLoading => Rendered = "Loading"
    /\ (~isLoading /\ session = "none") =>
          IF path \in {"/auth/callback", "/auth_callback", "/set-password"}
          THEN Rendered = App(path)
          ELSE Rendered = "SignInPage"
    /\ (~isLoading /\ session # "none") => Rendered = App(path)
    /\ Rendered \in ApplicationPages => session # "none"

\* No session, loaded, on /set-password: the routed page is rendered.
C3_Witness ==
    /\ ~isLoading
    /\ session = "none"
    /\ path = "/set-password"
    /\ Rendered = "SetPasswordPage"

\* C4: refresh gives a non-null access value only to a user who has a
\* user_access record whose status is not 'disabled'; a user without a
\* record never receives a non-null access value.
C4_AccessOnlyWithEnabledRecord ==
    access # None =>
        /\ userAccessRow # None
        /\ ToLowerCase(Trim(userAccessRow[1].status)) # "disabled"

\* ================================================= buildEmailForStatus

MaxPatients == 2

\* statusLabel of the provider updates page.
statusLabel(value) ==
    CASE value = "APPT_SCHEDULED" -> "Appt scheduled"
      [] value = "NO_RESPONSE_3_ATTEMPTS" -> "No response (3 attempts)"
      [] value = "NOT_INTERESTED" -> "Not interested"
      [] value = "CANCELLED" -> "Cancelled"
      [] value = "NO_SHOW" -> "No show"
      [] value = "CANCELLED/ NO_SHOW" -> "Cancelled / No show"
      [] OTHER -> value

\* formatDateTimeDisplay: blank gives '', an unparsable text is returned as
\* it is, a parsable one is formatted by Intl.DateTimeFormat.
formatDateTimeDisplay(value) ==
    IF Trim(value) = "" THEN ""
    ELSE CASE value = "2024-05-01T10:00:00+00:00" -> "05/01/2024, 10:00 AM"
           [] value = "2024-06-02T09:30:00+00:00" -> "06/02/2024, 09:30 AM"
           [] OTHER -> value

\* One piece of the body text.  A patient block is
\*   Patient Name: <text>[\n<label>: <appt>][\n<extra>]
\* and blocks are joined by blank lines.
Piece(kind, text) == [kind |-> kind, text |-> text, label |-> "", appt |-> "", extra |-> ""]

PatientBlock(name, label, appt, extra) ==
    [kind |-> "patient", text |-> name,
     label |-> IF appt = "" THEN "" ELSE label, appt |-> appt, extra |-> extra]

NoPatients == <<PatientBlock("(No patients)", "", "", "")>>

apptLines(patients) ==
    IF Len(patients) # 0
    THEN [i \in 1..Len(patients) |->
            LET appt == Trim(patients[i].apptDateTime)
                apptDisplay == IF appt # "" THEN formatDateTimeDisplay(appt) ELSE ""
            IN  PatientBlock(patients[i].name, "Appointment Date & Time", apptDisplay, "")]
    ELSE NoPatients

nameLines_WithAppointment(patients) == apptLines(patients)

nameLines(patients) ==
    IF Len(patients) # 0
    THEN [i \in 1..Len(patients) |-> PatientBlock(patients[i].name, "", "", "")]
    ELSE NoPatients

cancelledLines(patients) ==
    IF Len(patients) # 0
    THEN [i \in 1..Len(patients) |->
            LET appt == Trim(patients[i].apptDateTime)
                apptDisplay == IF appt # "" THEN formatDateTimeDisplay(appt) ELSE ""
            IN  PatientBlock(patients[i].name, "Original Appointment Date", apptDisplay,
                             "Status: Cancelled / No Show")]
    ELSE NoPatients

greeting == Piece("greeting", "Hello,")

signature == Piece("signature", "Thank you, Convergence Health")

\* The subjects carry an en dash in the source; it is written "-" here.
buildEmailForStatus(args) ==
    LET status == args.status
        patients == args.patients
    IN  CASE status = "APPT_SCHEDULED" ->
               [subject |-> "Patient Update - Appointment Scheduled",
                body |-> <<greeting,
                           Piece("intro", "We are writing to inform you that the following patient(s) has been scheduled for an appointment with our office:")>>
                         \o apptLines(patients)
                         \o <<Piece("closing", "Please let us know if you need any additional information."),
                              signature>>]
          [] status = "NO_RESPONSE_3_ATTEMPTS" ->
               [subject |-> "Patient Update - No Response After Contact Attempts",
                body |-> <<greeting,
                           Piece("intro", "We have made multiple attempts to contact the following patient(s) regarding their referral but have not received a response:")>>
                         \o nameLines(patients)
                         \o <<Piece("closing", "At this time, the patient(s) has not scheduled an appointment. If you would like us to continue outreach or have updated contact information, please let us know."),
                              signature>>]
          [] status = "NOT_INTERESTED" ->
               [subject |-> "Patient Update - Not Interested in Scheduling",
                body |-> <<greeting,
                           Piece("intro", "We contacted the following patient(s) regarding their referral. The patient(s) has informed us that they are not interested in scheduling an appointment at this time:")>>
                         \o nameLines(patients)
                         \o <<Piece("closing", "Please let us know if you would like us to follow up again in the future."),
                              signature>>]
          [] status = "CANCELLED/ NO_SHOW" ->
               [subject |-> "Patient Update - Appointment Cancelled / No Show",
                body |-> <<greeting,
                           Piece("intro", "We are writing to inform you that the following patient(s) did not complete their scheduled appointment:")>>
                         \o cancelledLines(patients)
                         \o <<Piece("closing", "If you would like us to attempt rescheduling or follow up further, please let us know how you would like us to proceed."),
                              signature>>]
          [] OTHER ->
               [subject |-> "Patient Update - " \o statusLabel(status),
                body |-> <<greeting>> \o nameLines(patients) \o <<signature>>]

\* ---- the arguments the function is applied to

MailStatuses == {"APPT_SCHEDULED", "NO_RESPONSE_3_ATTEMPTS", "NOT_INTERESTED",
                 "CANCELLED/ NO_SHOW", "NEW_REFERRAL", "CANCELLED"}

MailNames == {"Ann Lee", "bo Diaz"}

MailAppts == {"", "  ", "2024-05-01T10:00:00+00:00", "tbd"}

MailProviderNames == {"Dr Adams", "(No referral provider)"}

MailPracticeNames == {"Convergence Health", "CH_Elko"}

MailPatient == [name : MailNames, apptDateTime : MailAppts]

MailPatientLists == UNION {[1..n -> MailPatient] : n \in 0..MaxPatients}

MailInit ==
    /\ mailArgs \in [status : MailStatuses, providerName : MailProviderNames,
                     practiceName : MailPracticeNames, patients : MailPatientLists]
    /\ mailOut = None
    /\ AuthIdle /\ DbIdle /\ UpdIdle /\ SetIdle /\ TblIdle /\ ViewIdle /\ RepIdle /\ SchIdle
    /\ NoteIdle /\ UmIdle

BuildEmail ==
    /\ mailOut = None
    /\ mailOut' = Some(buildEmailForStatus(mailArgs))
    /\ UNCHANGED mailArgs
    /\ MailFrame

MailNext == BuildEmail

SpecEmail == MailInit /\ [][MailNext]_vars

\* ---- C6

C6_KnownStatuses == {"APPT_SCHEDULED", "NO_RESPONSE_3_ATTEMPTS", "NOT_INTERESTED",
                     "CANCELLED/ NO_SHOW"}

C6_Subject(status) ==
    CASE status = "APPT_SCHEDULED" -> "Patient Update - Appointment Scheduled"
      [] status = "NO_RESPONSE_3_ATTEMPTS" -> "Patient Update - No Response After Contact Attempts"
      [] status = "NOT_INTERESTED" -> "Patient Update - Not Interested in Scheduling"
      [] status = "CANCELLED/ NO_SHOW" -> "Patient Update - Appointment Cancelled / No Show"

C6_AppointmentLabel(status) ==
    CASE status = "APPT_SCHEDULED" -> "Appointment Date & Time"
      [] status = "CANCELLED/ NO_SHOW" -> "Original Appointment Date"
      [] OTHER -> ""

C6_IsBlock(x) == x.kind = "patient"

\* C6: the value buildEmailForStatus returned is the same whatever provider
\* name and practice name it was given (neither argument reaches the output);
\* for the four templated statuses it has that status's fixed subject and a
\* body of greeting, an introduction and a closing that no other status
\* shares, and the signature; between them stands one block per patient in
\* input order, or the single block '(No patients)' for an empty list; a
\* block has an appointment line iff the status is APPT_SCHEDULED or
\* 'CANCELLED/ NO_SHOW' and the patient's apptDateTime is non-blank, under
\* that status's label; for any other status the subject is 'Patient Update - '
\* followed by statusLabel(status) and the body is greeting, the name-only
\* blocks and the signature.
C6_BuildEmailForStatus ==
    mailOut # None =>
        LET out == mailOut[1]
            st == mailArgs.status
            ps == mailArgs.patients
            body == out.body
            blocks == SelectSeq(body, C6_IsBlock)
            known == st \in C6_KnownStatuses
            first == IF known THEN 3 ELSE 2
        IN  /\ \A pn \in MailProviderNames, pr \in MailPracticeNames :
                  buildEmailForStatus([mailArgs EXCEPT !.providerName = pn,
                                                       !.practiceName = pr]) = out
            /\ body[1] = Piece("greeting", "Hello,")
            /\ body[Len(body)] = Piece("signature", "Thank you, Convergence Health")
            /\ SubSeq(body, first, first + Len(blocks) - 1) = blocks
            /\ IF ps = <<>>
               THEN blocks = <<[kind |-> "patient", text |-> "(No patients)",
                                label |-> "", appt |-> "", extra |-> ""]>>
               ELSE /\ Len(blocks) = Len(ps)
                    /\ \A i \in 1..Len(ps) :
                          /\ blocks[i].text = ps[i].name
                          /\ blocks[i].label # "" <=>
                                /\ st \in {"APPT_SCHEDULED", "CANCELLED/ NO_SHOW"}
                                /\ Trim(ps[i].apptDateTime) # ""
                          /\ blocks[i].label # "" =>
                                /\ blocks[i].label = C6_AppointmentLabel(st)
                                /\ blocks[i].appt = formatDateTimeDisplay(Trim(ps[i].apptDateTime))
                          /\ blocks[i].label = "" => blocks[i].appt = ""
            /\ known =>
                  /\ out.subject = C6_Subject(st)
                  /\ Len(body) = Len(blocks) + 4
                  /\ body[2].kind = "intro"
                  /\ body[Len(body) - 1].kind = "closing"
                  /\ \A other \in C6_KnownStatuses \ {st} :
                        LET o == buildEmailForStatus([mailArgs EXCEPT !.status = other]).body
                        IN  o[2] # body[2] /\ o[Len(o) - 1] # body[Len(body) - 1]
            /\ ~known =>
                  /\ out.subject = "Patient Update - " \o statusLabel(st)
                  /\ Len(body) = Len(blocks) + 2
                  /\ \A i \in 1..Len(blocks) : blocks[i].label = "" /\ blocks[i].extra = ""

C6_Witness ==
    /\ mailOut # None
    /\ mailArgs.status = "CANCELLED/ NO_SHOW"
    /\ Len(mailArgs.patients) = 2
    /\ mailArgs.patients[1].apptDateTime = "  "
    /\ mailArgs.patients[2].apptDateTime = "2024-05-01T10:00:00+00:00"
    /\ mailOut[1].body[3].label = ""
    /\ mailOut[1].body[4].label = "Original Appointment Date"

\* ============================================ referral provider updates page
\* The selected week is fixed: updRemoteRows holds the rows the week's query
\* selects.  The toast and the copy feedback are not modelled.

MaxUpdRows == 2

MaxSends == 2

\* String(x ?? '') of a nullable column.
Str(x) == IF x = None THEN "" ELSE x[1]

\* new Date().toISOString() at the moment of a send.
NowIso == "2024-05-03T12:00:00.000Z"

STATUS_FILTER == {"APPT_SCHEDULED", "NO_RESPONSE_3_ATTEMPTS", "NOT_INTERESTED",
                  "CANCELLED/ NO_SHOW"}

STATUS_TABS == <<"APPT_SCHEDULED", "NO_RESPONSE_3_ATTEMPTS", "NOT_INTERESTED",
                 "CANCELLED/ NO_SHOW">>

\* The tabs the model clicks.
ClickedTabs == {STATUS_TABS[1], STATUS_TABS[3]}

\* a.localeCompare(b) < 0 iff LocaleRank(a) < LocaleRank(b), on the strings
\* the model sorts (lower-cased patient names, provider keys).
LocaleRank(str) ==
    CASE str = "(No referral provider)" -> 0
      [] str = "1" -> 1
      [] str = "7" -> 2
      [] str = "al" -> 3
      [] str = "bob" -> 4
      [] OTHER -> 5

\* Array.prototype.sort with a comparator that orders element i by key[i]:
\* stable.
StableSort(seq, key) ==
    LET n == Len(seq)
        Before(j, i) == key[j] < key[i] \/ (key[j] = key[i] /\ j < i)
        Pos(i) == 1 + Cardinality({j \in 1..n : Before(j, i)})
    IN  [p \in 1..n |-> seq[CHOOSE i \in 1..n : Pos(i) = p]]

\* ---- the remote tables as the page meets them

UpdRowIds == <<"r1", "r2", "r3", "r4">>

UpdRowKinds ==
    {[id |-> "", patient_name |-> Some(n), referral_provider |-> Some("Dr Adams"),
      referral_provider_id |-> pid, location |-> Some("CH_Elko"),
      status |-> Some("APPT_SCHEDULED"), status_updated_at |-> 0,
      appt_date_time |-> Some("2024-05-01T10:00:00+00:00"), email_sent_at |-> None] :
        n \in {"Bob", "al"}, pid \in {Some(1), Some(7), None}}
    \cup
    {[id |-> "", patient_name |-> Some("al"), referral_provider |-> Some("Dr Adams"),
      referral_provider_id |-> Some(1), location |-> None,
      status |-> Some("APPT_SCHEDULED"), status_updated_at |-> 0,
      appt_date_time |-> None, email_sent_at |-> Some("2024-05-02T08:00:00+00:00")],
     [id |-> "", patient_name |-> Some("Bob"), referral_provider |-> Some("Dr Adams"),
      referral_provider_id |-> Some(1), location |-> None,
      status |-> Some("NOT_INTERESTED"), status_updated_at |-> 0,
      appt_date_time |-> None, email_sent_at |-> None]}

\* Row i gets the i-th id and the i-th instant as its status_updated_at.
UpdRemoteTables ==
    UNION {{[i \in 1..n |-> [f[i] EXCEPT !.id = UpdRowIds[i], !.status_updated_at = i]] :
                f \in [1..n -> UpdRowKinds]} : n \in 0..MaxUpdRows}

UpdDirectory ==
    <<[id |-> 1, referral_provider |-> Some(" Dr Adams "), provider_practice |-> Some("Elko Clinic"),
       contact_phone |-> None, contact_email |-> Some(" a@x.org"), address |-> None,
       is_active |-> TRUE, edit_history |-> <<>>],
      [id |-> 2, referral_provider |-> Some("Dr Baker"), provider_practice |-> None,
       contact_phone |-> None, contact_email |-> None, address |-> None,
       is_active |-> TRUE, edit_history |-> <<>>]>>

\* ---- reloadRows

\* nextProviders of reloadRows: keyed by String(id), the first row of an id wins.
NextProviders(data) ==
    LET keys == {ToString(data[i].id) : i \in 1..Len(data)}
        First(k) == data[CHOOSE i \in 1..Len(data) :
                             /\ ToString(data[i].id) = k
                             /\ \A j \in 1..(i - 1) : ToString(data[j].id) # k]
    IN  [k \in keys |-> [name |-> Trim(Str(First(k).referral_provider)),
                         email |-> Trim(Str(First(k).contact_email))]]

ToUpdateRow(r) ==
    [id |-> r.id,
     patientName |-> Str(r.patient_name),
     referralProvider |-> Str(r.referral_provider),
     referralProviderId |-> IF r.referral_provider_id # None
                            THEN ToString(r.referral_provider_id[1]) ELSE "",
     location |-> Str(r.location),
     status |-> Str(r.status),
     statusUpdatedAt |-> r.status_updated_at,
     apptDateTime |-> Str(r.appt_date_time),
     emailSentAt |-> Str(r.email_sent_at)]

\* bt - at of the comparator: the later instant sorts first.
NewestFirst(rows) == [i \in 1..Len(rows) |-> 0 - rows[i].statusUpdatedAt]

\* next of reloadRows: the mapped rows, newest status change first.
NextRows(data) ==
    LET next == [i \in 1..Len(data) |-> ToUpdateRow(data[i])]
    IN  StableSort(next, NewestFirst(next))

NextEmailSentAt(next) ==
    LET sent == {i \in 1..Len(next) : next[i].emailSentAt # ""}
    IN  [k \in {next[i].id : i \in sent} |->
            next[CHOOSE i \in sent : next[i].id = k /\ \A j \in sent : next[j].id = k => j <= i].emailSentAt]

\* The state reloadRows leaves, given how its two queries answered.
ReloadRows(rowsError, providersError) ==
    IF rowsError
    THEN /\ updRows' = <<>>
         /\ updError' = Some("rows query failed")
         /\ UNCHANGED <<providerById, emailSentAtByRowId>>
    ELSE /\ providerById' = IF providersError THEN <<>> ELSE NextProviders(dbProviders)
         /\ updRows' = NextRows(updRemoteRows)
         /\ emailSentAtByRowId' = NextEmailSentAt(NextRows(updRemoteRows))
         /\ UNCHANGED updError

\* ---- memoised values

grouped(rows, k) == SelectSeq(rows, LAMBDA r : r.status = k)

ProviderKey(r) ==
    LET providerId == Trim(r.referralProviderId)
    IN  IF providerId # "" THEN providerId ELSE "(No referral provider)"

PatientNameKey(rows) == [i \in 1..Len(rows) |-> LocaleRank(ToLowerCase(rows[i].patientName))]

ProviderKeyOrder(keys) == [i \in 1..Len(keys) |-> LocaleRank(keys[i])]

SetToSeq(S) == 
    LET f == CHOOSE f \in [1..Cardinality(S) -> S] : \A x \in S : \E i \in 1..Cardinality(S) : f[i] = x
    IN  f

emailUpdatesDataOf(open, tab, rows) ==
    IF ~open THEN None
    ELSE LET statusRows == grouped(rows, tab)
             keys == {ProviderKey(statusRows[i]) : i \in 1..Len(statusRows)}
         IN  Some([status |-> tab,
                   providers |-> StableSort(SetToSeq(keys), ProviderKeyOrder(SetToSeq(keys))),
                   byProviderId |->
                       [k \in keys |->
                           LET group == SelectSeq(statusRows, LAMBDA r : ProviderKey(r) = k)
                           IN  StableSort(group, PatientNameKey(group))]])

emailUpdatesData == emailUpdatesDataOf(isEmailUpdatesOpen, activeStatusTab, updRows)

computePracticeName(patients) ==
    LET locations == {Trim(patients[i].location) : i \in 1..Len(patients)} \ {""}
    IN  IF Cardinality(locations) = 1 THEN CHOOSE v \in locations : TRUE
        ELSE "Convergence Health"

unsentPatients_All(patients) == patients

unsentPatients(patients) == SelectSeq(patients, LAMBDA p : Trim(p.emailSentAt) = "")

emailDraftsOf(eud, byId) ==
    IF eud = None THEN <<>>
    ELSE LET d == eud[1]
             drafted == {k \in DOMAIN d.byProviderId : Len(unsentPatients(d.byProviderId[k])) # 0}
         IN  [providerId \in drafted |->
                LET unsent == unsentPatients(d.byProviderId[providerId])
                    known == providerId \in DOMAIN byId
                    providerName ==
                        IF providerId = "(No referral provider)" THEN "(No referral provider)"
                        ELSE IF known /\ byId[providerId].name # "" THEN byId[providerId].name
                        ELSE "(Unknown provider)"
                    email == IF known THEN byId[providerId].email ELSE ""
                    draft == buildEmailForStatus(
                                 [status |-> d.status,
                                  providerName |-> providerName,
                                  practiceName |-> computePracticeName(unsent),
                                  patients |-> [i \in 1..Len(unsent) |->
                                                   [name |-> unsent[i].patientName,
                                                    apptDateTime |-> unsent[i].apptDateTime,
                                                    status |-> unsent[i].status]]])
                IN  [to |-> email, subject |-> draft.subject, body |-> draft.body]]

emailDraftByProviderId == emailDraftsOf(emailUpdatesData, providerById)

\* ---- what the page renders

UpdatesListShown == updError = None /\ ~updLoading /\ Len(updRows) # 0

EmailPanelShown ==
    /\ UpdatesListShown
    /\ emailUpdatesData # None
    /\ \E k \in DOMAIN emailUpdatesData[1].byProviderId :
          Len(unsentPatients(emailUpdatesData[1].byProviderId[k])) # 0

ProviderSectionShown(providerId) ==
    /\ EmailPanelShown
    /\ providerId \in DOMAIN emailUpdatesData[1].byProviderId
    /\ Len(unsentPatients(emailUpdatesData[1].byProviderId[providerId])) # 0
    /\ providerId \in DOMAIN emailDraftByProviderId

\* The section's "Send email update" button is enabled.
SendUpdateEnabled(providerId) ==
    LET email == IF providerId \in DOMAIN providerById THEN providerById[providerId].email ELSE ""
        draft == emailDraftByProviderId[providerId]
    IN  email # "" /\ draft.subject # "" /\ draft.body # <<>>

\* A modal overlay covers the page.
UpdModalOpen == isSendEmailModalOpen

\* ---- initial state and actions

UpdInit ==
    /\ updRemoteRows \in UpdRemoteTables
    /\ dbProviders = UpdDirectory
    /\ updReloadPending = TRUE
    /\ updRows = <<>>
    /\ updLoading = TRUE
    /\ updError = None
    /\ activeStatusTab = STATUS_TABS[1]
    /\ providerById = <<>>
    /\ isEmailUpdatesOpen = FALSE
    /\ isSendEmailModalOpen = FALSE
    /\ sendEmailTo = ""
    /\ sendEmailSubject = ""
    /\ sendEmailBody = <<>>
    /\ sendEmailProviderId = None
    /\ isSendingEmail = FALSE
    /\ sendEmailError = None
    /\ sendEmailSuccess = None
    /\ emailSentAtByRowId = <<>>
    /\ sends = <<>>
    /\ AuthIdle /\ MailIdle /\ SetIdle /\ TblIdle /\ ViewIdle /\ RepIdle /\ SchIdle
    /\ NoteIdle /\ UmIdle

updPageVars == <<activeStatusTab, isEmailUpdatesOpen, isSendEmailModalOpen, sendEmailTo,
                 sendEmailSubject, sendEmailBody, sendEmailProviderId, isSendingEmail,
                 sendEmailError, sendEmailSuccess, sends>>

\* The mount effect's reloadRows() answers, then setLoading(false).
MountReloadAnswered(rowsError, providersError) ==
    /\ updReloadPending
    /\ ReloadRows(rowsError, providersError)
    /\ updLoading' = FALSE
    /\ updReloadPending' = FALSE
    /\ UNCHANGED <<updRemoteRows, updPageVars>>
    /\ UpdFrame

SetActiveStatusTab(key) ==
    /\ UpdatesListShown /\ ~UpdModalOpen
    /\ activeStatusTab' = key
    /\ UNCHANGED <<updRemoteRows, updReloadPending, updRows, updLoading, updError, providerById,
                   isEmailUpdatesOpen, isSendEmailModalOpen, sendEmailTo, sendEmailSubject,
                   sendEmailBody, sendEmailProviderId, isSendingEmail, sendEmailError,
                   sendEmailSuccess, emailSentAtByRowId, sends>>
    /\ UpdFrame

\* "Send email update" above the list (TRUE) and "Back to list" (FALSE).
SetIsEmailUpdatesOpen(open) ==
    /\ ~UpdModalOpen
    /\ IF open THEN UpdatesListShown ELSE EmailPanelShown
    /\ isEmailUpdatesOpen' = open
    /\ UNCHANGED <<updRemoteRows, updReloadPending, updRows, updLoading, updError, providerById,
                   activeStatusTab, isSendEmailModalOpen, sendEmailTo, sendEmailSubject,
                   sendEmailBody, sendEmailProviderId, isSendingEmail, sendEmailError,
                   sendEmailSuccess, emailSentAtByRowId, sends>>
    /\ UpdFrame

\* A provider section's "Send email update".
OpenSendEmailModal(providerId) ==
    /\ ~UpdModalOpen
    /\ ProviderSectionShown(providerId)
    /\ SendUpdateEnabled(providerId)
    /\ sendEmailTo' = emailDraftByProviderId[providerId].to
    /\ sendEmailSubject' = emailDraftByProviderId[providerId].subject
    /\ sendEmailBody' = emailDraftByProviderId[providerId].body
    /\ sendEmailProviderId' = Some(providerId)
    /\ sendEmailError' = None
    /\ sendEmailSuccess' = None
    /\ isSendEmailModalOpen' = TRUE
    /\ UNCHANGED <<updRemoteRows, updReloadPending, updRows, updLoading, updError, providerById,
                   activeStatusTab, isEmailUpdatesOpen, isSendingEmail, emailSentAtByRowId, sends>>
    /\ UpdFrame

\* The modal's Close and Cancel.
CloseSendEmailModal ==
    /\ isSendEmailModalOpen
    /\ ~isSendingEmail
    /\ isSendEmailModalOpen' = FALSE
    /\ UNCHANGED <<updRemoteRows, updReloadPending, updRows, updLoading, updError, providerById,
                   activeStatusTab, isEmailUpdatesOpen, sendEmailTo, sendEmailSubject,
                   sendEmailBody, sendEmailProviderId, isSendingEmail, sendEmailError,
                   sendEmailSuccess, emailSentAtByRowId, sends>>
    /\ UpdFrame

\* Typing in the modal's To field.
SetSendEmailTo(value) ==
    /\ isSendEmailModalOpen
    /\ sendEmailTo' = value
    /\ UNCHANGED <<updRemoteRows, updReloadPending, updRows, updLoading, updError, providerById,
                   activeStatusTab, isEmailUpdatesOpen, isSendEmailModalOpen, sendEmailSubject,
                   sendEmailBody, sendEmailProviderId, isSendingEmail, sendEmailError,
                   sendEmailSuccess, emailSentAtByRowId, sends>>
    /\ UpdFrame

\* ---- the modal's Send

SendClickPasses_NoSendingGuard ==
    /\ Trim(sendEmailTo) # "" /\ sendEmailSubject # "" /\ sendEmailBody # <<>>

\* The early returns of the Send handler.
SendClickPasses ==
    /\ ~isSendingEmail
    /\ Trim(sendEmailTo) # "" /\ sendEmailSubject # "" /\ sendEmailBody # <<>>

\* The handler up to its first await.  It keeps the values of the render it
\* was created in: the modal's fields and the provider's rows of emailUpdatesData.
ClickSend ==
    /\ isSendEmailModalOpen
    /\ SendClickPasses
    /\ Len(sends) < MaxSends
    /\ isSendingEmail' = TRUE
    /\ sendEmailError' = None
    /\ sendEmailSuccess' = None
    /\ sends' = Append(sends,
          [await |-> "getSession",
           to |-> Trim(sendEmailTo), subject |-> sendEmailSubject, text |-> sendEmailBody,
           providerPatients |->
               IF /\ sendEmailProviderId # None
                  /\ emailUpdatesData # None
                  /\ sendEmailProviderId[1] \in DOMAIN emailUpdatesData[1].byProviderId
               THEN Some(emailUpdatesData[1].byProviderId[sendEmailProviderId[1]])
               ELSE None,
           updateIssued |-> FALSE])
    /\ UNCHANGED <<updRemoteRows, updReloadPending, updRows, updLoading, updError, providerById,
                   activeStatusTab, isEmailUpdatesOpen, isSendEmailModalOpen, sendEmailTo,
                   sendEmailSubject, sendEmailBody, sendEmailProviderId, emailSentAtByRowId>>
    /\ UpdFrame

\* catch and finally of the handler.
SendThrows(i, message) ==
    /\ sendEmailError' = Some(message)
    /\ isSendingEmail' = FALSE
    /\ sends' = RemoveAt(sends, i)
    /\ UNCHANGED <<updRemoteRows, updReloadPending, updRows, updLoading, updError, providerById,
                   activeStatusTab, isEmailUpdatesOpen, isSendEmailModalOpen, sendEmailTo,
                   sendEmailSubject, sendEmailBody, sendEmailProviderId, sendEmailSuccess,
                   emailSentAtByRowId>>

\* The statements after the email_sent_at block, up to await reloadRows().
SendSucceeds(i) ==
    /\ sendEmailSuccess' = Some("Email sent")
    /\ isSendEmailModalOpen' = FALSE
    /\ sends' = [sends EXCEPT ![i].await = "reloadRows"]

SendIds(providerPatients) ==
    {providerPatients[j].id : j \in 1..Len(providerPatients)} \ {""}

SessionAnswers == {"error", "no session", "session"}

SendAfterGetSession(i, answer) ==
    /\ i \in 1..Len(sends)
    /\ sends[i].await = "getSession"
    /\ CASE answer = "error" -> SendThrows(i, "session error")
         [] answer = "no session" -> SendThrows(i, "No session found. Please log in again.")
         [] OTHER ->
              /\ sends' = [sends EXCEPT ![i].await = "fetch"]
              /\ UNCHANGED <<updRemoteRows, updReloadPending, updRows, updLoading, updError,
                             providerById, activeStatusTab, isEmailUpdatesOpen,
                             isSendEmailModalOpen, sendEmailTo, sendEmailSubject, sendEmailBody,
                             sendEmailProviderId, isSendingEmail, sendEmailError,
                             sendEmailSuccess, emailSentAtByRowId>>
    /\ UpdFrame

FetchAnswers == {"network error", "status 500", "no ok in body", "ok"}

SendAfterFetch(i, answer) ==
    /\ i \in 1..Len(sends)
    /\ sends[i].await = "fetch"
    /\ CASE answer = "network error" -> SendThrows(i, "Failed to fetch")
         [] answer = "status 500" -> SendThrows(i, "Edge Function failed: 500")
         [] answer = "no ok in body" -> SendThrows(i, "Send failed")
         [] OTHER ->
              IF sends[i].providerPatients # None /\ SendIds(sends[i].providerPatients[1]) # {}
              THEN /\ sends' = [sends EXCEPT ![i].await = "update", ![i].updateIssued = TRUE]
                   /\ UNCHANGED <<updRemoteRows, updReloadPending, updRows, updLoading, updError,
                                  providerById, activeStatusTab, isEmailUpdatesOpen,
                                  isSendEmailModalOpen, sendEmailTo, sendEmailSubject,
                                  sendEmailBody, sendEmailProviderId, isSendingEmail,
                                  sendEmailError, sendEmailSuccess, emailSentAtByRowId>>
              ELSE /\ SendSucceeds(i)
                   /\ UNCHANGED <<updRemoteRows, updReloadPending, updRows, updLoading, updError,
                                  providerById, activeStatusTab, isEmailUpdatesOpen, sendEmailTo,
                                  sendEmailSubject, sendEmailBody, sendEmailProviderId,
                                  isSendingEmail, sendEmailError, emailSentAtByRowId>>
    /\ UpdFrame

\* The answer to update({ email_sent_at: now }).in('id', ids).
SendAfterUpdate(i, updateError) ==
    /\ i \in 1..Len(sends)
    /\ sends[i].await = "update"
    /\ IF updateError
       THEN /\ SendThrows(i, "Email sent but failed to update Email Sent At")
       ELSE LET ids == SendIds(sends[i].providerPatients[1])
            IN  /\ updRemoteRows' =
                      [j \in 1..Len(updRemoteRows) |->
                          IF updRemoteRows[j].id \in ids
                          THEN [updRemoteRows[j] EXCEPT !.email_sent_at = Some(NowIso)]
                          ELSE updRemoteRows[j]]
                /\ emailSentAtByRowId' =
                      [k \in DOMAIN emailSentAtByRowId \cup ids |->
                          IF k \in ids THEN NowIso ELSE emailSentAtByRowId[k]]
                /\ SendSucceeds(i)
                /\ UNCHANGED <<updReloadPending, updRows, updLoading, updError, providerById,
                               activeStatusTab, isEmailUpdatesOpen, sendEmailTo,
                               sendEmailSubject, sendEmailBody, sendEmailProviderId,
                               isSendingEmail, sendEmailError>>
    /\ UpdFrame

\* reloadRows() answers, then finally.
SendAfterReloadRows(i, rowsError, providersError) ==
    /\ i \in 1..Len(sends)
    /\ sends[i].await = "reloadRows"
    /\ ReloadRows(rowsError, providersError)
    /\ isSendingEmail' = FALSE
    /\ sends' = RemoveAt(sends, i)
    /\ UNCHANGED <<updRemoteRows, updReloadPending, updLoading, activeStatusTab,
                   isEmailUpdatesOpen, isSendEmailModalOpen, sendEmailTo, sendEmailSubject,
                   sendEmailBody, sendEmailProviderId, sendEmailError, sendEmailSuccess>>
    /\ UpdFrame

UpdNext ==
    \/ \E re, pe \in BOOLEAN : MountReloadAnswered(re, pe)
    \/ \E key \in ClickedTabs : SetActiveStatusTab(key)
    \/ \E open \in BOOLEAN : SetIsEmailUpdatesOpen(open)
    \/ \E providerId \in {"1", "7", "(No referral provider)"} : OpenSendEmailModal(providerId)
    \/ CloseSendEmailModal
    \/ SetSendEmailTo("  ")
    \/ ClickSend
    \/ \E i \in 1..MaxSends, answer \in SessionAnswers : SendAfterGetSession(i, answer)
    \/ \E i \in 1..MaxSends, answer \in FetchAnswers : SendAfterFetch(i, answer)
    \/ \E i \in 1..MaxSends, updateError \in BOOLEAN : SendAfterUpdate(i, updateError)
    \/ \E i \in 1..MaxSends, re, pe \in BOOLEAN : SendAfterReloadRows(i, re, pe)

SpecUpdates == UpdInit /\ [][UpdNext]_vars

\* ---- C5

C5_GroupKey(r) ==
    IF r.referralProviderId = "" THEN "(No referral provider)" ELSE r.referralProviderId

C5_TabRows == {updRows[i] : i \in {j \in 1..Len(updRows) : updRows[j].status = activeStatusTab}}

C5_Group(k) == {r \in C5_TabRows : C5_GroupKey(r) = k}

C5_Unsent(k) == {r \in C5_Group(k) : r.emailSentAt = ""}

C5_ContactEmail(k) ==
    LET p == dbProviders[CHOOSE i \in 1..Len(dbProviders) : ToString(dbProviders[i].id) = k]
    IN  IF p.contact_email = None THEN "" ELSE Trim(p.contact_email[1])

\* C5: with the email panel open, the groups of emailUpdatesData are the rows
\* of the active status tab split by referral provider id (rows without an
\* id under '(No referral provider)'); a provider has a draft iff one of its
\* rows has an empty emailSentAt; the draft's patient blocks are exactly the
\* group's rows with an empty emailSentAt, in an order that is non-decreasing
\* in the lower-cased patient name; the recipient is the contact email of the
\* directory row of that id as the page loaded it, and it is empty, with the
\* section's send button disabled, when the page holds no such row.
C5_DraftsOfUnsentRows ==
    isEmailUpdatesOpen =>
        LET d == emailUpdatesData[1]
            drafts == emailDraftByProviderId
        IN  /\ d.status = activeStatusTab
            /\ DOMAIN d.byProviderId = {C5_GroupKey(r) : r \in C5_TabRows}
            /\ \A k \in DOMAIN d.byProviderId :
                  /\ {d.byProviderId[k][i] : i \in 1..Len(d.byProviderId[k])} = C5_Group(k)
                  /\ Len(d.byProviderId[k]) = Cardinality(C5_Group(k))
                  /\ k \in DOMAIN drafts <=> C5_Unsent(k) # {}
            /\ \A k \in DOMAIN drafts :
                  LET blocks == SelectSeq(drafts[k].body, C6_IsBlock)
                  IN  /\ k \in DOMAIN d.byProviderId
                      /\ Len(blocks) = Cardinality(C5_Unsent(k))
                      /\ \A r \in C5_Unsent(k) :
                            Cardinality({i \in 1..Len(blocks) : blocks[i].text = r.patientName})
                              = Cardinality({q \in C5_Unsent(k) : q.patientName = r.patientName})
                      /\ \A i, j \in 1..Len(blocks) :
                            i < j => LocaleRank(ToLowerCase(blocks[i].text))
                                       <= LocaleRank(ToLowerCase(blocks[j].text))
                      /\ drafts[k].to = IF k \in DOMAIN providerById THEN C5_ContactEmail(k) ELSE ""
                      /\ k \notin {ToString(dbProviders[i].id) : i \in 1..Len(dbProviders)} =>
                            drafts[k].to = "" /\ ~SendUpdateEnabled(k)

C5_Witness ==
    /\ EmailPanelShown
    /\ Len(updRows) = 2
    /\ updRows[1].patientName = "Bob" /\ updRows[2].patientName = "al"
    /\ "1" \in DOMAIN emailDraftByProviderId
    /\ emailDraftByProviderId["1"].to = "a@x.org"
    /\ emailDraftByProviderId["1"].body[3].text = "al"
    /\ emailDraftByProviderId["1"].body[4].text = "Bob"

\* ---- C7

C7_AttemptEnds == Len(sends') < Len(sends)

\* C7: at most one Send handler is in flight and isSendingEmail is true
\* exactly while one is; a handler that ends while awaiting the session or the
\* email function (the read failed, the call failed, the status was not 2xx or
\* the body had no ok = true) has issued no email_sent_at update, leaves the
\* remote rows as they were, sets the error message and leaves the modal open;
\* whenever a handler ends, isSendingEmail is false.
C7_OneSendAndFailureKeepsModal ==
    /\ [](Len(sends) <= 1 /\ (isSendingEmail <=> sends # <<>>))
    /\ [][C7_AttemptEnds =>
            /\ ~isSendingEmail'
            /\ sends[1].await \in {"getSession", "fetch"} =>
                  /\ ~sends[1].updateIssued
                  /\ updRemoteRows' = updRemoteRows
                  /\ sendEmailError' # None
                  /\ isSendEmailModalOpen /\ isSendEmailModalOpen']_vars

C7_Witness ==
    /\ sends = <<>>
    /\ ~isSendingEmail
    /\ isSendEmailModalOpen
    /\ sendEmailError = Some("Edge Function failed: 500")

\* ================================== Table settings page: provider directory

MaxProvSaves == 2

MaxProvRefreshes == 1

PRACTICE_PLACEHOLDER_PROVIDER == "__practice__"

SetDirectory ==
    <<[id |-> 1, referral_provider |-> Some("Dr Adams"), provider_practice |-> Some("Elko Clinic"),
       contact_phone |-> None, contact_email |-> Some("a@x.org"), address |-> None,
       is_active |-> TRUE, edit_history |-> <<>>],
      [id |-> 2, referral_provider |-> Some("Dr Baker"), provider_practice |-> Some("Elko Clinic"),
       contact_phone |-> Some("775"), contact_email |-> None, address |-> Some("1 Main"),
       is_active |-> TRUE, edit_history |-> <<>>]>>

\* The store's ascending order on the texts of the model.
PgRank(str) ==
    CASE str = "" -> 0
      [] str = "Dr Adams" -> 1
      [] str = "Dr Baker" -> 2
      [] str = "Dr Zed" -> 3
      [] str = "Elko Clinic" -> 1
      [] OTHER -> 4

\* .order('provider_practice').order('referral_provider')
ByPracticeThenProvider(data) ==
    [i \in 1..Len(data) |->
        10 * PgRank(Str(data[i].provider_practice)) + PgRank(Str(data[i].referral_provider))]

ToProviderRow(r) ==
    [id |-> ToString(r.id),
     practice |-> Str(r.provider_practice),
     provider |-> Str(r.referral_provider),
     contactPhone |-> Str(r.contact_phone),
     contactEmail |-> Str(r.contact_email),
     address |-> Str(r.address),
     isActive |-> (r.is_active = TRUE),
     editHistory |-> r.edit_history]

\* next of refreshProviders.
NextProviderRows(table) ==
    LET data == StableSort(table, ByPracticeThenProvider(table))
    IN  [i \in 1..Len(data) |-> ToProviderRow(data[i])]

\* The state refreshProviders leaves, given how its query answered.
refreshProviders(error) ==
    IF error
    THEN /\ providers' = <<>>
         /\ providerError' = Some("load failed")
         /\ UNCHANGED originalProviders
    ELSE LET next == NextProviderRows(dbProviders)
         IN  /\ providers' = next
             /\ originalProviders' =
                   [k \in {next[i].id : i \in 1..Len(next)} |->
                       next[CHOOSE i \in 1..Len(next) :
                               next[i].id = k /\ \A j \in 1..Len(next) : next[j].id = k => j <= i]]
             /\ UNCHANGED providerError

visibleProviders == SelectSeq(providers, LAMBDA p : p.provider # PRACTICE_PLACEHOLDER_PROVIDER)

filteredProviders ==
    LET practice == Trim(existingPracticeSelected)
    IN  IF practice = "" THEN <<>>
        ELSE SelectSeq(visibleProviders, LAMBDA p : p.practice = practice)

practices == {Trim(providers[i].practice) : i \in 1..Len(providers)} \ {""}

isProviderDirty_IgnoresProvider(p) ==
    IF p.id \notin DOMAIN originalProviders THEN FALSE
    ELSE LET original == originalProviders[p.id]
         IN  \/ p.practice # original.practice
             \/ p.contactPhone # original.contactPhone
             \/ p.contactEmail # original.contactEmail
             \/ p.address # original.address
             \/ p.isActive # original.isActive

isProviderDirty(p) ==
    IF p.id \notin DOMAIN originalProviders THEN FALSE
    ELSE LET original == originalProviders[p.id]
         IN  \/ p.practice # original.practice
             \/ p.provider # original.provider
             \/ p.contactPhone # original.contactPhone
             \/ p.contactEmail # original.contactEmail
             \/ p.address # original.address
             \/ p.isActive # original.isActive

\* value || null
OrNull(str) == IF str = "" THEN None ELSE Some(str)

\* changes of saveProviderRow.
ProviderChanges(row, original) ==
    LET keys == (IF row.practice # original.practice THEN {"provider_practice"} ELSE {})
                \cup (IF row.provider # original.provider THEN {"referral_provider"} ELSE {})
                \cup (IF row.contactPhone # original.contactPhone THEN {"contact_phone"} ELSE {})
                \cup (IF row.contactEmail # original.contactEmail THEN {"contact_email"} ELSE {})
                \cup (IF row.address # original.address THEN {"address"} ELSE {})
                \cup (IF row.isActive # original.isActive THEN {"is_active"} ELSE {})
    IN  [k \in keys |->
            CASE k = "provider_practice" -> [from |-> original.practice, to |-> row.practice]
              [] k = "referral_provider" -> [from |-> original.provider, to |-> row.provider]
              [] k = "contact_phone" -> [from |-> original.contactPhone, to |-> row.contactPhone]
              [] k = "contact_email" -> [from |-> original.contactEmail, to |-> row.contactEmail]
              [] k = "address" -> [from |-> original.address, to |-> row.address]
              [] k = "is_active" -> [from |-> original.isActive, to |-> row.isActive]]

\* The object saveProviderRow passes to update().
ProviderUpdatePayload(row, nowIso) ==
    LET known == row.id \in DOMAIN originalProviders
        changes == IF known THEN ProviderChanges(row, originalProviders[row.id]) ELSE <<>>
        editHistoryEntry == [at |-> nowIso, action |-> "update", changes |-> changes]
        priorHistory == IF known THEN originalProviders[row.id].editHistory ELSE row.editHistory
    IN  [provider_practice |-> Some(row.practice),
         referral_provider |-> Some(row.provider),
         contact_phone |-> OrNull(row.contactPhone),
         contact_email |-> OrNull(Trim(row.contactEmail)),
         address |-> OrNull(row.address),
         is_active |-> row.isActive,
         edit_history |-> Append(priorHistory, editHistoryEntry)]

\* ---- initial state and actions

SetInit ==
    /\ dbProviders = SetDirectory
    /\ providers = <<>>
    /\ originalProviders = <<>>
    /\ existingPracticeSelected = ""
    /\ savingProviderId = None
    /\ providerError = None
    /\ providerSuccess = None
    /\ editProvider = None
    /\ editProviderModalError = None
    /\ provRefreshes = 1
    /\ provSaves = <<>>
    /\ provClock = 0
    /\ AuthIdle /\ MailIdle /\ UpdIdle /\ TblIdle /\ ViewIdle /\ RepIdle /\ SchIdle
    /\ NoteIdle /\ UmIdle

\* The edit overlay covers the page.
SetModalOpen == editProvider # None

\* A refreshProviders() of the mount effect or of the Refresh button answers.
RefreshProvidersAnswered(error) ==
    /\ provRefreshes > 0
    /\ provRefreshes' = provRefreshes - 1
    /\ refreshProviders(error)
    /\ UNCHANGED <<dbProviders, existingPracticeSelected, savingProviderId, providerSuccess,
                   editProvider, editProviderModalError, provSaves, provClock>>
    /\ SetFrame

ClickRefresh ==
    /\ ~SetModalOpen
    /\ Trim(existingPracticeSelected) # ""
    /\ provRefreshes < MaxProvRefreshes
    /\ provRefreshes' = provRefreshes + 1
    /\ UNCHANGED <<dbProviders, providers, originalProviders, existingPracticeSelected,
                   savingProviderId, providerError, providerSuccess, editProvider,
                   editProviderModalError, provSaves, provClock>>
    /\ SetFrame

SetExistingPracticeSelected(v) ==
    /\ ~SetModalOpen
    /\ v = "" \/ v \in practices
    /\ existingPracticeSelected' = v
    /\ UNCHANGED <<dbProviders, providers, originalProviders, savingProviderId, providerError,
                   providerSuccess, editProvider, editProviderModalError, provRefreshes,
                   provSaves, provClock>>
    /\ SetFrame

openEditProvider(i) ==
    /\ ~SetModalOpen
    /\ i \in 1..Len(filteredProviders)
    /\ LET p == filteredProviders[i]
       IN  editProvider' = Some([id |-> p.id, practice |-> p.practice, name |-> p.provider,
                                 phone |-> p.contactPhone, email |-> p.contactEmail,
                                 address |-> p.address, active |-> p.isActive])
    /\ providerError' = None
    /\ providerSuccess' = None
    /\ editProviderModalError' = None
    /\ UNCHANGED <<dbProviders, providers, originalProviders, existingPracticeSelected,
                   savingProviderId, provRefreshes, provSaves, provClock>>
    /\ SetFrame

\* What the model types into the edit drafts of each provider.
EditInputs(id) == IF id = "1" THEN {"rename"} ELSE {"contact"}

TypeEditProvider(input) ==
    /\ SetModalOpen
    /\ input \in EditInputs(editProvider[1].id)
    /\ editProvider' =
          IF input = "rename"
          THEN Some([editProvider[1] EXCEPT !.name = " Dr Zed "])
          ELSE Some([editProvider[1] EXCEPT !.phone = "555", !.email = " z@x.org",
                                            !.address = "9 Elm", !.active = FALSE])
    /\ UNCHANGED <<dbProviders, providers, originalProviders, existingPracticeSelected,
                   savingProviderId, providerError, providerSuccess, editProviderModalError,
                   provRefreshes, provSaves, provClock>>
    /\ SetFrame

\* Cancel and the close button of the overlay.
CancelEditProvider ==
    /\ SetModalOpen
    /\ editProvider' = None
    /\ UNCHANGED <<dbProviders, providers, originalProviders, existingPracticeSelected,
                   savingProviderId, providerError, providerSuccess, editProviderModalError,
                   provRefreshes, provSaves, provClock>>
    /\ SetFrame

\* updateProviderField(id, patch) on the providers state.
updateProviderField(id, d) ==
    [i \in 1..Len(providers) |->
        IF providers[i].id = id
        THEN [providers[i] EXCEPT !.provider = Trim(d.name), !.contactPhone = Trim(d.phone),
                                  !.contactEmail = Trim(d.email), !.address = Trim(d.address),
                                  !.isActive = d.active]
        ELSE providers[i]]

applyEditProvider ==
    /\ SetModalOpen
    /\ IF Trim(editProvider[1].email) = ""
       THEN /\ editProviderModalError' = Some("Email is required")
            /\ UNCHANGED <<providers, providerError, providerSuccess, editProvider>>
       ELSE /\ providers' = updateProviderField(editProvider[1].id, editProvider[1])
            /\ providerError' = None
            /\ providerSuccess' = None
            /\ editProvider' = None
            /\ UNCHANGED editProviderModalError
    /\ UNCHANGED <<dbProviders, originalProviders, existingPracticeSelected, savingProviderId,
                   provRefreshes, provSaves, provClock>>
    /\ SetFrame

\* ---- saveProviderRow

saveProviderRowPasses_WhileSaving(id) ==
    /\ id # ""
    /\ \E i \in 1..Len(filteredProviders) : filteredProviders[i].id = id
    /\ \E i \in 1..Len(filteredProviders) :
          filteredProviders[i].id = id /\ isProviderDirty(filteredProviders[i])

\* The early returns of saveProviderRow; find() takes the first row of the id.
saveProviderRowPasses(id) ==
    /\ id # ""
    /\ savingProviderId = None
    /\ \E i \in 1..Len(filteredProviders) : filteredProviders[i].id = id
    /\ \E i \in 1..Len(filteredProviders) :
          filteredProviders[i].id = id /\ isProviderDirty(filteredProviders[i])

\* saveProviderRow up to its await of update(): the Save button of a listed row.
saveProviderRow(id) ==
    /\ ~SetModalOpen
    /\ saveProviderRowPasses(id)
    /\ provClock < MaxProvSaves
    /\ LET row == filteredProviders[CHOOSE i \in 1..Len(filteredProviders) :
                                       filteredProviders[i].id = id]
       IN  provSaves' = Append(provSaves,
                               [id |-> id, await |-> "update",
                                payload |-> ProviderUpdatePayload(row, provClock + 1)])
    /\ provClock' = provClock + 1
    /\ providerError' = None
    /\ providerSuccess' = None
    /\ savingProviderId' = Some(id)
    /\ UNCHANGED <<dbProviders, providers, originalProviders, existingPracticeSelected,
                   editProvider, editProviderModalError, provRefreshes>>
    /\ SetFrame

\* update().eq('id', id) answers; refreshProviders() is called on both paths.
SaveAfterUpdate(i, error) ==
    /\ i \in 1..Len(provSaves)
    /\ provSaves[i].await = "update"
    /\ provSaves' = [provSaves EXCEPT ![i].await = "refreshProviders"]
    /\ IF error
       THEN /\ providerError' = Some("Save failed")
            /\ UNCHANGED <<dbProviders, providerSuccess>>
       ELSE /\ dbProviders' =
                  [j \in 1..Len(dbProviders) |->
                      IF ToString(dbProviders[j].id) = provSaves[i].id
                      THEN [id |-> dbProviders[j].id] @@ provSaves[i].payload
                      ELSE dbProviders[j]]
            /\ providerSuccess' = Some("Saved")
            /\ UNCHANGED providerError
    /\ UNCHANGED <<providers, originalProviders, existingPracticeSelected, savingProviderId,
                   editProvider, editProviderModalError, provRefreshes, provClock>>
    /\ SetFrame

\* The refreshProviders() of a save answers, then finally.
SaveAfterRefresh(i, error) ==
    /\ i \in 1..Len(provSaves)
    /\ provSaves[i].await = "refreshProviders"
    /\ refreshProviders(error)
    /\ savingProviderId' = None
    /\ provSaves' = RemoveAt(provSaves, i)
    /\ UNCHANGED <<dbProviders, existingPracticeSelected, providerSuccess, editProvider,
                   editProviderModalError, provRefreshes, provClock>>
    /\ SetFrame

SetNext ==
    \/ \E error \in BOOLEAN : RefreshProvidersAnswered(error)
    \/ ClickRefresh
    \/ \E v \in {"", "Elko Clinic"} : SetExistingPracticeSelected(v)
    \/ \E i \in 1..Len(SetDirectory) : openEditProvider(i)
    \/ \E input \in {"rename", "contact"} : TypeEditProvider(input)
    \/ CancelEditProvider
    \/ applyEditProvider
    \/ \E id \in {"1", "2"} : saveProviderRow(id)
    \/ \E i \in 1..MaxProvSaves, error \in BOOLEAN : SaveAfterUpdate(i, error)
    \/ \E i \in 1..MaxProvSaves, error \in BOOLEAN : SaveAfterRefresh(i, error)

SpecSettings == SetInit /\ [][SetNext]_vars

\* ---- C9

C9_Fields == {"practice", "provider", "contactPhone", "contactEmail", "address", "isActive"}

C9_Column(field) ==
    CASE field = "practice" -> "provider_practice"
      [] field = "provider" -> "referral_provider"
      [] field = "contactPhone" -> "contact_phone"
      [] field = "contactEmail" -> "contact_email"
      [] field = "address" -> "address"
      [] field = "isActive" -> "is_active"

C9_Differing(row, original) == {f \in C9_Fields : row[f] # original[f]}

C9_Nullable(str) == IF str = "" THEN None ELSE Some(str)

C9_UpdateIssued == Len(provSaves') > Len(provSaves)

C9_AttemptEnds == Len(provSaves') < Len(provSaves)

\* C9: every listed provider row has a loaded copy and is dirty iff it
\* differs from that copy in one of the six fields; at most one save is in
\* flight and savingProviderId is set exactly while one is; a step that issues
\* an update finds no save in progress and the row dirty, and its payload
\* carries the row's six fields and the loaded copy's edit history followed
\* by one 'update' entry whose changes are exactly the differing fields with
\* their from/to values; the remote directory changes only by such an
\* update; a save ends only after its refreshProviders() answered, with
\* the list replaced by that answer and savingProviderId cleared.
C9_DirtyRowSave ==
    /\ [](/\ \A i \in 1..Len(providers) :
                /\ providers[i].id \in DOMAIN originalProviders
                /\ isProviderDirty(providers[i]) <=>
                      C9_Differing(providers[i], originalProviders[providers[i].id]) # {}
          /\ Len(provSaves) <= 1
          /\ savingProviderId # None <=> provSaves # <<>>)
    /\ [][/\ C9_UpdateIssued =>
                LET save == provSaves'[Len(provSaves')]
                    row == providers[CHOOSE i \in 1..Len(providers) : providers[i].id = save.id]
                    original == originalProviders[save.id]
                    history == save.payload.edit_history
                    entry == history[Len(history)]
                    differing == C9_Differing(row, original)
                IN  /\ provSaves = <<>> /\ savingProviderId = None
                    /\ differing # {}
                    /\ save.payload.provider_practice = Some(row.practice)
                    /\ save.payload.referral_provider = Some(row.provider)
                    /\ save.payload.contact_phone = C9_Nullable(row.contactPhone)
                    /\ save.payload.contact_email = C9_Nullable(row.contactEmail)
                    /\ save.payload.address = C9_Nullable(row.address)
                    /\ save.payload.is_active = row.isActive
                    /\ Len(history) = Len(original.editHistory) + 1
                    /\ SubSeq(history, 1, Len(history) - 1) = original.editHistory
                    /\ entry.action = "update"
                    /\ DOMAIN entry.changes = {C9_Column(f) : f \in differing}
                    /\ \A f \in differing :
                          entry.changes[C9_Column(f)] = [from |-> original[f], to |-> row[f]]
          /\ dbProviders' # dbProviders =>
                /\ provSaves # <<>> /\ provSaves[1].await = "update"
                /\ \A j \in 1..Len(dbProviders) :
                      dbProviders'[j] # dbProviders[j] =>
                          dbProviders'[j] = [id |-> dbProviders[j].id] @@ provSaves[1].payload
          /\ C9_AttemptEnds =>
                /\ provSaves[1].await = "refreshProviders"
                /\ savingProviderId' = None
                /\ providers' = <<>> \/ providers' = NextProviderRows(dbProviders)]_vars

C9_Witness ==
    /\ provSaves = <<>>
    /\ savingProviderId = None
    /\ providerSuccess = Some("Saved")
    /\ Len(dbProviders[2].edit_history) = 1
    /\ DOMAIN dbProviders[2].edit_history[1].changes =
          {"contact_phone", "contact_email", "address", "is_active"}
    /\ dbProviders[2].edit_history[1].changes["contact_email"] = [from |-> "", to |-> "z@x.org"]
    /\ Len(providers) = 2
    /\ providers[2].contactEmail = "z@x.org"
    /\ ~isProviderDirty(providers[2])

\* ======================================================================
\* Referral table page (ReferralTablePage.tsx)
\* ======================================================================

MaxTblClicks == 4

OTHER_PROVIDER_VALUE == "__other__"
UNKNOWN_PROVIDER_VALUE == "__unknown__"
UNKNOWN_PROVIDER_LABEL == "Unknown Referral Provider"
OTHER_PROVIDER_PRACTICE_VALUE == "__other_practice__"
REFERRING_PROVIDER_PRACTICE_KEY == "referringProviderPractice"

\* Two of the twelve specialties: one whose schema has the referral provider
\* column and one whose schema has not.
SPECIALTIES == <<"Colonoscopy and EGD", "Singh Cancellations">>

SPECIALTY_TABLES(s) ==
    CASE s = "Colonoscopy and EGD" -> "referrals_colonoscopy_egd"
      [] s = "Singh Cancellations" -> "referrals_singh_cancellations"

Col(key, label, type) == [key |-> key, label |-> label, type |-> type]

\* The columns that decide what the page does.  The checkbox columns and the
\* insurance column are copied between draft, payload and row like reason
\* and notes, and are left out.
SCHEMAS(s) ==
    CASE s = "Colonoscopy and EGD" ->
           <<Col("dateReferralReceived", "Date Referral Received", "date"),
             Col("patientName", "Patient Name", "text"),
             Col("dob", "DOB", "date"),
             Col("phoneNumber", "Phone Number", "text"),
             Col("referringProvider", "Referral Provider", "text"),
             Col("reason", "Reason", "text"),
             Col("firstPatientCommunication", "1st patient communication", "datetime"),
             Col("secondPatientCommunication", "2nd patient communication", "datetime"),
             Col("thirdPatientCommunication", "3rd patient communication", "datetime"),
             Col("apptDateTime", "Appt date/time", "datetime"),
             Col("notes", "Notes", "text")>>
      [] s = "Singh Cancellations" ->
           <<Col("dateCancelled", "Date Cancelled", "date"),
             Col("patientName", "Patient Name", "text"),
             Col("dob", "DOB", "date"),
             Col("phoneNumber", "Phone", "text"),
             Col("reason", "Reason", "text"),
             Col("firstPatientCommunication", "1st Communication", "datetime"),
             Col("secondPatientCommunication", "2nd Communication", "datetime"),
             Col("thirdPatientCommunication", "3rd Communication", "datetime"),
             Col("apptDateTime", "Appt date and time", "datetime"),
             Col("notes", "Notes", "text")>>
      [] s = "Heme Onc Rice" ->
           <<Col("dateReferralReceived", "Date Referral Received", "date"),
             Col("patientName", "Patient Name", "text"),
             Col("ngmPatient", "NGM Patient?", "checkbox"),
             Col("referringProvider", "Referral Provider", "text"),
             Col("reason", "Reason", "text"),
             Col("apptDateTime", "Appt date and time", "datetime"),
             Col("notes", "Notes", "text")>>

\* /referring\s*provider/i.test(label): no label of the schemas matches.
ReferringProviderLabel(label) == label \in {"Referring Provider"}

SchemaKeys(schema) == {schema[i].key : i \in 1..Len(schema)}

\* findIndex, 1-based; 0 where the code has -1.
KeyIndex(schema, key) ==
    IF key \in SchemaKeys(schema)
    THEN CHOOSE i \in 1..Len(schema) :
            /\ schema[i].key = key
            /\ \A j \in 1..(i - 1) : schema[j].key # key
    ELSE 0

ReferringProviderIndex(schema) ==
    LET hit == {i \in 1..Len(schema) :
                   schema[i].key = "referringProvider" \/ ReferringProviderLabel(schema[i].label)}
    IN  IF hit = {} THEN 0 ELSE CHOOSE i \in hit : \A j \in hit : i <= j

withReferringProviderPractice_AfterProvider(schema) ==
    IF REFERRING_PROVIDER_PRACTICE_KEY \in SchemaKeys(schema) THEN schema
    ELSE LET idx == ReferringProviderIndex(schema)
         IN  IF idx = 0 THEN schema
             ELSE SubSeq(schema, 1, idx)
                  \o <<Col(REFERRING_PROVIDER_PRACTICE_KEY, "Referral Provider Practice", "text")>>
                  \o SubSeq(schema, idx + 1, Len(schema))

withReferringProviderPractice(schema) ==
    IF REFERRING_PROVIDER_PRACTICE_KEY \in SchemaKeys(schema) THEN schema
    ELSE LET idx == ReferringProviderIndex(schema)
         IN  IF idx = 0 THEN schema
             ELSE SubSeq(schema, 1, idx - 1)
                  \o <<Col(REFERRING_PROVIDER_PRACTICE_KEY, "Referral Provider Practice", "text")>>
                  \o SubSeq(schema, idx, Len(schema))

withReasonNotesAfterReferringProvider(schema) ==
    LET rpIdx == ReferringProviderIndex(schema)
        reasonIdx == KeyIndex(schema, "reason")
        notesIdx == KeyIndex(schema, "notes")
        filtered == SelectSeq(schema, LAMBDA c : c.key # "reason" /\ c.key # "notes")
        insertAt == ReferringProviderIndex(filtered)
        extras == (IF reasonIdx # 0 THEN <<schema[reasonIdx]>> ELSE <<>>)
                  \o (IF notesIdx # 0 THEN <<schema[notesIdx]>> ELSE <<>>)
    IN  IF rpIdx = 0 THEN schema
        ELSE IF reasonIdx = 0 /\ notesIdx = 0 THEN schema
        ELSE IF insertAt = 0 THEN schema
        ELSE SubSeq(filtered, 1, insertAt) \o extras
             \o SubSeq(filtered, insertAt + 1, Len(filtered))

withStatusEmailSentAfterApptDateTime(schema) ==
    LET keys == SchemaKeys(schema)
        idx == KeyIndex(schema, "apptDateTime")
        additions ==
            (IF "status" \in keys THEN <<>> ELSE <<Col("status", "Status", "text")>>)
            \o (IF "statusUpdatedAt" \in keys THEN <<>>
                ELSE <<Col("statusUpdatedAt", "Status Updated Date", "datetime")>>)
            \o (IF "emailSentAt" \in keys THEN <<>>
                ELSE <<Col("emailSentAt", "Email Sent At", "datetime")>>)
    IN  IF {"status", "statusUpdatedAt", "emailSentAt"} \subseteq keys THEN schema
        ELSE IF idx = 0 THEN schema
        ELSE SubSeq(schema, 1, idx) \o additions \o SubSeq(schema, idx + 1, Len(schema))

withStatusAfterApptDateTime(schema) ==
    LET idx == KeyIndex(schema, "apptDateTime")
    IN  IF "status" \in SchemaKeys(schema) THEN schema
        ELSE IF idx = 0 THEN schema
        ELSE SubSeq(schema, 1, idx) \o <<Col("status", "Status", "text")>>
             \o SubSeq(schema, idx + 1, Len(schema))

\* withReasonNotes of baseSchema, editorSchema and openAdd
withReasonNotes(s) ==
    IF s = "Colonoscopy and EGD"
    THEN withReasonNotesAfterReferringProvider(withReferringProviderPractice(SCHEMAS(s)))
    ELSE withReferringProviderPractice(SCHEMAS(s))

baseSchema(s) == withStatusEmailSentAfterApptDateTime(withReasonNotes(s))

editorSchema(s) == withStatusAfterApptDateTime(withReasonNotes(s))

\* Every read of the draft takes a key the draft does not hold as '' (typeof
\* draft[k] === 'string' ? draft[k] : ''), so a draft is kept as its readings
\* over the keys of all schemas.
DraftKeys ==
    UNION {SchemaKeys(baseSchema(SPECIALTIES[i])) : i \in 1..Len(SPECIALTIES)}
    \cup {REFERRING_PROVIDER_PRACTICE_KEY, "referringProviderId", "referringProvider"}

createEmptyDraft(schema) ==
    [k \in DraftKeys |->
        IF k \in SchemaKeys(schema) /\ schema[KeyIndex(schema, k)].type = "checkbox"
        THEN FALSE ELSE ""]

\* typeof f[k] === 'string' ? f[k] : '' (and String(f[k] ?? '')): every
\* value the model stores under a column key is a string.
StrAt(f, k) == IF k \in DOMAIN f THEN f[k] ELSE ""

\* { ...f, [k]: v }
Put(f, k, v) == [x \in (DOMAIN f) \cup {k} |-> IF x = k THEN v ELSE f[x]]

\* ---- conversions

\* The texts of the model that new Date() parses.
ValidDates == {"2024-04-30", "2024-05-01", "1975-02-02", "1980-01-01"}

\* toIsoDateOnly: null, or the first ten characters of the instant's ISO text.
toIsoDateOnly(value) ==
    IF Trim(value) = "" THEN None
    ELSE IF value \in ValidDates THEN Some(value)
    ELSE None

\* toIsoDateTime, in a browser whose zone is UTC.
toIsoDateTime(value) ==
    IF Trim(value) = "" THEN None
    ELSE CASE value = "2024-05-06T10:00" -> Some("2024-05-06T10:00:00.000Z")
           [] value = "2024-05-06T10:00:00.000Z" -> Some(value)
           [] value = "2024-05-06T10:00:00+00:00" -> Some("2024-05-06T10:00:00.000Z")
           [] OTHER -> None

\* toDateTimeLocalValue, in a browser whose zone is UTC.
toDateTimeLocalValue(value) ==
    IF Trim(value) = "" THEN ""
    ELSE CASE value = "2024-05-06T10:00" -> value
           [] value = "2024-05-06T10:00:00.000Z" -> "2024-05-06T10:00"
           [] value = "2024-05-06T10:00:00+00:00" -> "2024-05-06T10:00"
           [] OTHER -> ""

\* Number(text) for the text of a row id
Number(text) == CHOOSE n \in 0..9 : ToString(n) = text

\* phoneRaw.replace(/\D+/g, '')
PhoneDigits(phoneRaw) ==
    CASE phoneRaw = "(775) 555-0100" -> "7755550100"
      [] phoneRaw = "555" -> "555"
      [] OTHER -> ""

\* ---- the remote tables as the page meets them

\* r.column of a record the store or a payload gives: None is null or undefined.
Field(r, column) == IF column \in DOMAIN r THEN r[column] ELSE None

RemoteReferral(id, provider, providerId, practice) ==
    [id |-> id, record_status |-> Some("active"),
     date_referral_received |-> Some("2024-04-30"), patient_name |-> Some("Bo Diaz"),
     dob |-> Some("1975-02-02"), phone |-> Some("(775) 555-0100"),
     referral_provider |-> provider, referral_provider_id |-> providerId,
     provider_practice |-> practice, reason |-> Some(""), status |-> None,
     status_updated_at |-> None, email_sent_at |-> None, communication_1 |-> None,
     communication_2 |-> None, communication_3 |-> None,
     appt_date_time |-> None, notes |-> Some(""),
     updated_at |-> Some("2024-04-30T09:00:00.000Z")]

\* What referrals_colonoscopy_egd holds when the page mounts: a referral of
\* directory provider 1 saved under that provider's former name, and a
\* newer referral of a provider outside the directory.
TblRemoteTable ==
    <<RemoteReferral(1, Some("Dr A. Adams"), Some(1), Some("Elko Clinic")),
      RemoteReferral(2, Some("Dr Who"), None, Some(""))>>

\* The answer of the row query: record_status = 'active', created_at descending.
ActiveNewestFirst(table) ==
    LET active == SelectSeq(table, LAMBDA r : r.record_status = Some("active"))
    IN  [i \in 1..Len(active) |-> active[Len(active) + 1 - i]]

\* The answer of the directory query: three columns, ordered by referral_provider.
ProviderOptionsAnswer ==
    LET sorted == StableSort(dbProviders,
                             [i \in 1..Len(dbProviders) |->
                                 PgRank(Str(dbProviders[i].referral_provider))])
    IN  [i \in 1..Len(sorted) |->
            [id |-> sorted[i].id, referral_provider |-> sorted[i].referral_provider,
             provider_practice |-> sorted[i].provider_practice]]

providerLabel(p) == Trim(Str(p.referral_provider))

\* providerOptions.find((p) => String(p.id) === String(id)): None, or Some option.
FindProvider(options, id) ==
    LET hit == {i \in 1..Len(options) : ToString(options[i].id) = id}
    IN  IF hit = {} THEN None ELSE Some(options[CHOOSE i \in hit : \A j \in hit : i <= j])

\* mapped[col.key] of mapReferralTableRecordToRow
MappedColumn(r, key) ==
    CASE key = "dateReferralReceived" -> Field(r, "date_referral_received")
      [] key = "patientName" -> Field(r, "patient_name")
      [] key = "dob" -> Field(r, "dob")
      [] key = "phoneNumber" -> Field(r, "phone")
      [] key = "referringProvider" -> Field(r, "referral_provider")
      [] key = "referringProviderId" ->
           Some(IF Field(r, "referral_provider_id") # None
                THEN ToString(Field(r, "referral_provider_id")[1]) ELSE "")
      [] key = "reason" -> Field(r, "reason")
      [] key = "firstPatientCommunication" -> Field(r, "communication_1")
      [] key = "secondPatientCommunication" -> Field(r, "communication_2")
      [] key = "thirdPatientCommunication" -> Field(r, "communication_3")
      [] key = "apptDateTime" -> Field(r, "appt_date_time")
      [] key = "status" -> Field(r, "status")
      [] key = "statusUpdatedAt" -> Field(r, "status_updated_at")
      [] key = "emailSentAt" -> Field(r, "email_sent_at")
      [] key = "notes" -> Field(r, "notes")
      [] key = "ngmPatient" -> Field(r, "ngm_patient")
      [] OTHER -> None

\* normalizeBooleanLoose of a column the store gives as a boolean or null
normalizeBooleanLoose(raw) == raw = Some(TRUE)

ColumnType(schema, key) == schema[KeyIndex(schema, key)].type

RowOwnKeys == {"id", "archived", "referringProviderId", "provider_practice", "providerPractice"}

mapReferralTableRecordToRow(r, schemaForRow) ==
    LET keys == SchemaKeys(schemaForRow)
    IN  [k \in RowOwnKeys \cup keys |->
            IF k \in keys
            THEN IF ColumnType(schemaForRow, k) = "checkbox"
                 THEN normalizeBooleanLoose(MappedColumn(r, k))
                 ELSE Str(MappedColumn(r, k))
            ELSE CASE k = "id" -> ToString(r.id)
                   [] k = "archived" ->
                        (Field(r, "record_status") # None /\ Field(r, "record_status") # Some("active"))
                   [] k = "referringProviderId" -> Str(MappedColumn(r, "referringProviderId"))
                   [] OTHER -> Field(r, "provider_practice")]

\* The effect on providerOptions: rows of a directory provider take the
\* directory's name and practice.
SyncRowsWithProviders(prev, options) ==
    IF Len(options) = 0 THEN prev
    ELSE [i \in 1..Len(prev) |->
            LET r == prev[i]
                providerId == StrAt(r, "referringProviderId")
                p == FindProvider(options, providerId)
            IN  IF providerId = "" \/ providerId = OTHER_PROVIDER_VALUE
                   \/ providerId = UNKNOWN_PROVIDER_VALUE THEN r
                ELSE IF p = None THEN r
                ELSE LET providerName == Trim(Str(p[1].referral_provider))
                         practice == Trim(Str(p[1].provider_practice))
                     IN  IF StrAt(r, REFERRING_PROVIDER_PRACTICE_KEY) = practice
                            /\ StrAt(r, "referringProvider") = providerName
                         THEN r
                         ELSE Put(Put(r, "referringProvider", providerName),
                                  REFERRING_PROVIDER_PRACTICE_KEY, practice)]

canEditRows == canEdit(RoleOf(access))

\* ---- initial state: the page has mounted for a signed-in user and its two
\* mount effects have issued their queries.

TblUserAccessRows ==
    {None} \cup {Some([role |-> r, status |-> "active"]) : r \in {"editor", "guest"}}

NewRowLoad(s) == [specialty |-> s, isMounted |-> TRUE]

TblInit ==
    /\ authUser = "u1"
    /\ userAccessRow \in TblUserAccessRows
    /\ session = "u1"
    /\ isLoading = FALSE
    /\ authInitPending = FALSE
    /\ access = fetchUserAccess(FALSE, "u1", FALSE, userAccessRow)
    /\ loading = FALSE
    /\ refreshes = <<>>
    /\ path = "/"
    /\ urlReason = ""
    /\ hasRecovery = FALSE
    /\ dbProviders = SetDirectory
    /\ dbReferrals = [s \in {SPECIALTIES[i] : i \in 1..Len(SPECIALTIES)} |->
                         IF s = "Colonoscopy and EGD" THEN TblRemoteTable ELSE <<>>]
    /\ activeSpecialty = SPECIALTIES[1]
    /\ tblRows = <<>>
    /\ isRowsLoading = TRUE
    /\ tblRowsError = None
    /\ saveError = None
    /\ providerOptions = <<>>
    /\ isEditorOpen = FALSE
    /\ editingId = None
    /\ editorSpecialty = SPECIALTIES[1]
    /\ tblDraft = createEmptyDraft(baseSchema(SPECIALTIES[1]))
    /\ providerLoadPending = TRUE
    /\ rowLoads = <<NewRowLoad(SPECIALTIES[1])>>
    /\ saves = <<>>
    /\ archives = <<>>
    /\ tblClicks = 0
    /\ MailIdle /\ UpdIdle /\ SetIdle /\ ViewIdle /\ RepIdle /\ SchIdle
    /\ NoteIdle /\ UmIdle

\* A step of the user: the model follows the user for MaxTblClicks steps.
UserStep == tblClicks < MaxTblClicks /\ tblClicks' = tblClicks + 1

\* ---- the two loads

\* The directory query answers (the effect with no dependencies), and the
\* effect on providerOptions runs.
ProviderOptionsLoaded ==
    /\ providerLoadPending
    /\ providerLoadPending' = FALSE
    /\ \E error \in BOOLEAN :
         providerOptions' = IF error THEN <<>> ELSE ProviderOptionsAnswer
    /\ tblRows' = SyncRowsWithProviders(tblRows, providerOptions')
    /\ UNCHANGED <<dbReferrals, activeSpecialty, isRowsLoading, tblRowsError, saveError,
                   isEditorOpen, editingId, editorSpecialty, tblDraft, rowLoads, saves,
                   archives>>
    /\ UNCHANGED tblClicks
    /\ TblFrame

RemoteErrorMessage == "remote error"

\* The row query answers, an error or the table's active rows, and the
\* rows effect goes on after its await.
RowsLoaded(i) ==
    LET load == rowLoads[i]
        data == ActiveNewestFirst(dbReferrals[load.specialty])
    IN  /\ rowLoads' = RemoveAt(rowLoads, i)
        /\ \E error \in BOOLEAN :
             IF ~load.isMounted
             THEN UNCHANGED <<tblRows, tblRowsError, isRowsLoading>>
             ELSE IF error
             THEN /\ tblRows' = <<>>
                  /\ tblRowsError' = Some(RemoteErrorMessage)
                  /\ isRowsLoading' = FALSE
             ELSE /\ tblRows' = [j \in 1..Len(data) |->
                                   mapReferralTableRecordToRow(data[j],
                                                               baseSchema(load.specialty))]
                  /\ isRowsLoading' = FALSE
                  /\ UNCHANGED tblRowsError
        /\ UNCHANGED <<dbReferrals, activeSpecialty, saveError, providerOptions,
                       isEditorOpen, editingId, editorSpecialty, tblDraft,
                       providerLoadPending, saves, archives>>
        /\ UNCHANGED tblClicks
        /\ TblFrame

dateColumns(schema) == SelectSeq(schema, LAMBDA c : c.type = "date" \/ c.type = "datetime")

defaultDateKey(schema) ==
    IF "dateReferralReceived" \in SchemaKeys(dateColumns(schema))
    THEN "dateReferralReceived" ELSE "__none__"

\* The effect on dateColumns and defaultDateKey.
DateFilterKeyEffect(prev, schema) ==
    IF prev = "__none__" THEN defaultDateKey(schema)
    ELSE IF prev \in SchemaKeys(dateColumns(schema)) THEN prev
    ELSE defaultDateKey(schema)

\* The effect on schema: pinned keys the schema does not have are dropped.
PinnedKeysEffect(prev, schema) == SelectSeq(prev, LAMBDA k : k \in SchemaKeys(schema))

\* A specialty tab is clicked: the rows effect cleans up and runs again, and
\* the effects on the schema run.
SetActiveSpecialty(s) ==
    /\ ~isEditorOpen
    /\ s # activeSpecialty
    /\ activeSpecialty' = s
    /\ isRowsLoading' = TRUE
    /\ tblRowsError' = None
    /\ rowLoads' = Append([i \in 1..Len(rowLoads) |-> [rowLoads[i] EXCEPT !.isMounted = FALSE]],
                          NewRowLoad(s))
    /\ dateFilterKey' = DateFilterKeyEffect(dateFilterKey, baseSchema(s))
    /\ pinnedKeys' = PinnedKeysEffect(pinnedKeys, baseSchema(s))
    /\ UNCHANGED <<dbReferrals, tblRows, saveError, providerOptions, isEditorOpen,
                   editingId, editorSpecialty, tblDraft, providerLoadPending, saves,
                   archives>>
    /\ UNCHANGED <<timeZoneOffset, searchBy, searchText, dateFrom, dateTo, sortBy, sortDir,
                   csvFile>>
    /\ UserStep
    /\ PageFrame

\* ---- the editor

\* rows.find((r) => r.id === id): None, or Some row.
FindRow(id) ==
    LET hit == {i \in 1..Len(tblRows) : tblRows[i]["id"] = id}
    IN  IF hit = {} THEN None ELSE Some(tblRows[CHOOSE i \in hit : \A j \in hit : i <= j])

editingRow == IF editingId = None THEN None ELSE FindRow(editingId[1])

\* The "Add Referral" button of the header.
openAdd ==
    /\ ~isEditorOpen
    /\ saveError' = None
    /\ editingId' = None
    /\ editorSpecialty' = activeSpecialty
    /\ tblDraft' = createEmptyDraft(withStatusAfterApptDateTime(withReasonNotes(activeSpecialty)))
    /\ isEditorOpen' = TRUE
    /\ UNCHANGED <<dbReferrals, activeSpecialty, tblRows, isRowsLoading, tblRowsError,
                   providerOptions, providerLoadPending, rowLoads, saves, archives>>
    /\ UserStep
    /\ TblFrame

\* nextDraft of openEdit
EditDraft(row, schema, options) ==
    LET copied == [k \in DraftKeys |->
                      IF k \notin SchemaKeys(schema) THEN createEmptyDraft(schema)[k]
                      ELSE IF schema[KeyIndex(schema, k)].type = "datetime"
                      THEN toDateTimeLocalValue(StrAt(row, k))
                      ELSE StrAt(row, k)]
        rowProviderId == Trim(StrAt(row, "referringProviderId"))
        picked == FindProvider(options, rowProviderId)
        providerFromTable == Trim(StrAt(row, "referringProvider"))
        practiceFromTable ==
            Trim(IF Field(row, "provider_practice") # None THEN row["provider_practice"][1]
                 ELSE IF Field(row, "providerPractice") # None THEN row["providerPractice"][1]
                 ELSE StrAt(row, REFERRING_PROVIDER_PRACTICE_KEY))
        withId == Put(copied, "referringProviderId", rowProviderId)
        withPicked ==
            LET providerPractice == Trim(Str(picked[1].provider_practice))
                d == IF providerPractice # ""
                     THEN Put(withId, REFERRING_PROVIDER_PRACTICE_KEY, providerPractice)
                     ELSE withId
            IN  Put(d, "referringProvider", providerLabel(picked[1]))
        fromTable ==
            IF providerFromTable = UNKNOWN_PROVIDER_LABEL
            THEN Put(Put(copied, "referringProviderId", UNKNOWN_PROVIDER_VALUE),
                     "referringProvider", UNKNOWN_PROVIDER_LABEL)
            ELSE IF providerFromTable # ""
            THEN Put(Put(copied, "referringProviderId", OTHER_PROVIDER_VALUE),
                     "referringProvider", providerFromTable)
            ELSE copied
    IN  IF rowProviderId # ""
        THEN (IF picked # None THEN withPicked ELSE withId)
        ELSE IF practiceFromTable # ""
        THEN Put(fromTable, REFERRING_PROVIDER_PRACTICE_KEY, practiceFromTable)
        ELSE fromTable

\* The Edit button of a row: rendered for canEditRows only.
openEdit(id) ==
    /\ ~isEditorOpen
    /\ canEditRows
    /\ FindRow(id) # None
    /\ saveError' = None
    /\ editingId' = Some(id)
    /\ editorSpecialty' = activeSpecialty
    /\ tblDraft' = EditDraft(FindRow(id)[1], baseSchema(activeSpecialty), providerOptions)
    /\ isEditorOpen' = TRUE
    /\ UNCHANGED <<dbReferrals, activeSpecialty, tblRows, isRowsLoading, tblRowsError,
                   providerOptions, providerLoadPending, rowLoads, saves, archives>>
    /\ UserStep
    /\ TblFrame

\* What closeEditor sets, for the activeSpecialty its closure holds.
CloseEditorSets(active) ==
    /\ saveError' = None
    /\ isEditorOpen' = FALSE
    /\ editingId' = None
    /\ editorSpecialty' = active
    /\ tblDraft' = createEmptyDraft(baseSchema(active))

\* The Close button or the backdrop of the editor.
closeEditor ==
    /\ isEditorOpen
    /\ CloseEditorSets(activeSpecialty)
    /\ UNCHANGED <<dbReferrals, activeSpecialty, tblRows, isRowsLoading, tblRowsError,
                   providerOptions, providerLoadPending, rowLoads, saves, archives>>
    /\ UserStep
    /\ TblFrame

\* What every input of the editor leaves alone.
DraftInputFrame ==
    /\ UserStep
    /\ UNCHANGED <<dbReferrals, activeSpecialty, tblRows, isRowsLoading, tblRowsError,
                   saveError, providerOptions, isEditorOpen, editingId,
                   providerLoadPending, rowLoads, saves, archives>>
    /\ TblFrame

\* The "Add to" select, rendered while no row is being edited.
SetEditorSpecialty(next) ==
    /\ isEditorOpen
    /\ editingRow = None
    /\ next # editorSpecialty
    /\ editorSpecialty' = next
    /\ tblDraft' = createEmptyDraft(SCHEMAS(next))
    /\ DraftInputFrame

\* The provider inputs are rendered at the referringProvider column.
ProviderInputsShown(s) ==
    {"referringProvider", "referringProviderId"} \cap SchemaKeys(editorSchema(s)) # {}

practiceOptionsWithCurrent(d, options) ==
    LET providerPractice == StrAt(d, REFERRING_PROVIDER_PRACTICE_KEY)
        practiceOptions == {Trim(Str(options[i].provider_practice)) : i \in 1..Len(options)}
                           \ {""}
    IN  IF providerPractice # "" /\ providerPractice # OTHER_PROVIDER_PRACTICE_VALUE
        THEN practiceOptions \cup {providerPractice}
        ELSE practiceOptions

\* onChange of the "Referral Provider Practice" select
setDraftPractice(d, nextPractice) ==
    LET keepOtherProvider ==
            /\ StrAt(d, "referringProviderId") = OTHER_PROVIDER_VALUE
            /\ Trim(StrAt(d, "referringProvider")) # ""
        d1 == Put(d, "referringProviderId",
                  IF nextPractice = OTHER_PROVIDER_PRACTICE_VALUE
                  THEN OTHER_PROVIDER_VALUE ELSE "")
        d2 == Put(d1, "referringProvider",
                  IF keepOtherProvider THEN StrAt(d, "referringProvider") ELSE "")
    IN  Put(d2, REFERRING_PROVIDER_PRACTICE_KEY, nextPractice)

filteredProviderOptions(d, options) ==
    LET providerPractice == StrAt(d, REFERRING_PROVIDER_PRACTICE_KEY)
    IN  IF providerPractice = "" THEN <<>>
        ELSE SelectSeq(options, LAMBDA p : Trim(Str(p.provider_practice)) = providerPractice)

providerIdOptions(d, options) ==
    {"", UNKNOWN_PROVIDER_VALUE, OTHER_PROVIDER_VALUE}
    \cup {ToString(filteredProviderOptions(d, options)[i].id) :
             i \in 1..Len(filteredProviderOptions(d, options))}

\* onChange of the "Referral Provider" select
setDraftProviderId(d, options, v) ==
    IF v = UNKNOWN_PROVIDER_VALUE
    THEN Put(Put(d, "referringProviderId", UNKNOWN_PROVIDER_VALUE),
             "referringProvider", UNKNOWN_PROVIDER_LABEL)
    ELSE IF v = OTHER_PROVIDER_VALUE
    THEN Put(Put(d, "referringProviderId", OTHER_PROVIDER_VALUE),
             "referringProvider", StrAt(d, "referringProvider"))
    ELSE LET picked == IF v # "" THEN FindProvider(filteredProviderOptions(d, options), v)
                       ELSE None
             d1 == Put(d, "referringProviderId", v)
             d2 == Put(d1, "referringProvider",
                       IF picked # None THEN providerLabel(picked[1]) ELSE "")
         IN  Put(d2, REFERRING_PROVIDER_PRACTICE_KEY,
                 IF picked # None THEN Str(picked[1].provider_practice) ELSE "")

\* onChange of the "Other Referral Provider" input
setDraftOtherProvider(d, v) == Put(d, "referringProvider", v)

\* onChange of the inputs of the other columns of editorSchema, one
\* setDraft((d) => ({ ...d, [col.key]: v })) for each column of the input.
setDraftDetails(d, schema, input) ==
    LET shown == (SchemaKeys(schema) \cap DOMAIN input)
                 \ {REFERRING_PROVIDER_PRACTICE_KEY, "referringProvider", "referringProviderId"}
    IN  [k \in (DOMAIN d) \cup shown |-> IF k \in shown THEN input[k] ELSE d[k]]

\* What the user types into the inputs of the Details section: a complete
\* referral, and the same with a phone number of three digits.
CompleteDetails ==
    [dateReferralReceived |-> "2024-05-01", patientName |-> "Ann Lee",
     dob |-> "1980-01-01", phoneNumber |-> "(775) 555-0100"]

ShortPhoneDetails == [CompleteDetails EXCEPT !.phoneNumber = "555"]

InputStep(kind, value) == [kind |-> kind, value |-> value]

\* The ways the user fills the form, each a run of input events: the
\* details alone, and the details with a directory provider, with the
\* Unknown provider, with a provider of the Other practice.
FormFills ==
    {<<InputStep("details", CompleteDetails)>>,
     <<InputStep("details", ShortPhoneDetails)>>,
     <<InputStep("details", CompleteDetails), InputStep("practice", "Elko Clinic"),
       InputStep("provider", "2")>>,
     <<InputStep("details", CompleteDetails), InputStep("practice", "Elko Clinic"),
       InputStep("provider", UNKNOWN_PROVIDER_VALUE)>>,
     <<InputStep("details", CompleteDetails),
       InputStep("practice", OTHER_PROVIDER_PRACTICE_VALUE),
       InputStep("other", "Dr Who")>>}

\* The inputs of the 2nd and the 3rd communication take the value of a
\* details step: an input is disabled while the draft has no 1st (for the
\* 3rd: no 1st or no 2nd) communication, and a disabled input fires no
\* event.  The user goes through the inputs in the order of the form.
CommunicationInputsEnabled(d, schema, input) ==
    LET typed == (SchemaKeys(schema) \cap DOMAIN input)
        Was(k) == StrAt(d, k)
        Now(k) == IF k \in typed THEN input[k] ELSE Was(k)
        comm1Filled == Trim(Now("firstPatientCommunication")) # ""
        comm2Filled == Trim(Now("secondPatientCommunication")) # ""
        Changes(k) == k \in typed /\ input[k] # Was(k)
    IN  /\ Changes("secondPatientCommunication") => comm1Filled
        /\ Changes("thirdPatientCommunication") => comm1Filled /\ comm2Filled

\* The input of a step is on the screen and offers the step's value.
StepOffered(d, s, options, step) ==
    CASE step.kind = "details" -> CommunicationInputsEnabled(d, editorSchema(s), step.value)
      [] step.kind = "practice" ->
           /\ ProviderInputsShown(s)
           /\ step.value \in {"", OTHER_PROVIDER_PRACTICE_VALUE}
                             \cup practiceOptionsWithCurrent(d, options)
      [] step.kind = "provider" ->
           /\ ProviderInputsShown(s)
           /\ StrAt(d, REFERRING_PROVIDER_PRACTICE_KEY) # OTHER_PROVIDER_PRACTICE_VALUE
           /\ step.value \in providerIdOptions(d, options)
      [] step.kind = "other" ->
           /\ ProviderInputsShown(s)
           /\ StrAt(d, "referringProviderId") = OTHER_PROVIDER_VALUE

\* The draft after the step's event; an input that already shows the value
\* fires no event.
StepResult(d, s, options, step) ==
    CASE step.kind = "details" -> setDraftDetails(d, editorSchema(s), step.value)
      [] step.kind = "practice" ->
           IF step.value = StrAt(d, REFERRING_PROVIDER_PRACTICE_KEY) THEN d
           ELSE setDraftPractice(d, step.value)
      [] step.kind = "provider" ->
           IF step.value = StrAt(d, "referringProviderId") THEN d
           ELSE setDraftProviderId(d, options, step.value)
      [] step.kind = "other" ->
           IF step.value = StrAt(d, "referringProvider") THEN d
           ELSE setDraftOtherProvider(d, step.value)

\* The user fills the form of the open editor.
FillDraft(fill) ==
    /\ isEditorOpen
    /\ LET after[i \in 0..Len(fill)] ==
               IF i = 0 THEN tblDraft
               ELSE StepResult(after[i - 1], editorSpecialty, providerOptions, fill[i])
       IN  /\ \A i \in 1..Len(fill) :
                StepOffered(after[i - 1], editorSpecialty, providerOptions, fill[i])
           /\ tblDraft' = after[Len(fill)]
           /\ tblDraft' # tblDraft
    /\ UNCHANGED editorSpecialty
    /\ DraftInputFrame

\* ---- saveDraft

\* Array.from(new Set(labels))
Dedup(labels) ==
    LET F[i \in 0..Len(labels)] ==
            IF i = 0 THEN <<>>
            ELSE IF \E j \in 1..(i - 1) : labels[j] = labels[i] THEN F[i - 1]
            ELSE Append(F[i - 1], labels[i])
    IN  F[Len(labels)]

\* labels.join(', ')
JoinComma(labels) ==
    LET F[i \in 0..Len(labels)] ==
            IF i = 0 THEN ""
            ELSE IF i = 1 THEN labels[1]
            ELSE F[i - 1] \o ", " \o labels[i]
    IN  F[Len(labels)]

\* editorSchema.find((c) => c.key === key)?.label ?? fallback
LabelOf(schema, key, fallback) ==
    IF key \in SchemaKeys(schema) THEN schema[KeyIndex(schema, key)].label ELSE fallback

\* The validation of saveDraft: None, or Some of the message it stops with.
saveDraftError(d, schema) ==
    LET schemaKeys == SchemaKeys(schema)
        requiredKeys == <<"dateReferralReceived", "patientName", "dob", "phoneNumber">>
        missingKeys == SelectSeq(requiredKeys,
                                 LAMBDA key : key \in schemaKeys /\ Trim(StrAt(d, key)) = "")
        missingRequired == [i \in 1..Len(missingKeys) |->
                               LabelOf(schema, missingKeys[i], missingKeys[i])]
        practice == Trim(StrAt(d, REFERRING_PROVIDER_PRACTICE_KEY))
        providerId == Trim(StrAt(d, "referringProviderId"))
        providerText == Trim(StrAt(d, "referringProvider"))
        providerNeedsText == providerId = OTHER_PROVIDER_VALUE
                             \/ practice = OTHER_PROVIDER_PRACTICE_VALUE
        missingLabels ==
            missingRequired
            \o (IF practice = "" THEN <<"Referral Provider Practice">> ELSE <<>>)
            \o (IF providerId = "" /\ practice # OTHER_PROVIDER_PRACTICE_VALUE
                THEN <<"Referral Provider">> ELSE <<>>)
            \o (IF providerNeedsText /\ providerText = ""
                THEN <<"Referral Provider">> ELSE <<>>)
        nextStatusInput == Trim(StrAt(d, "status"))
        nextApptDateTime == Trim(StrAt(d, "apptDateTime"))
        nextThirdCommunication == Trim(StrAt(d, "thirdPatientCommunication"))
    IN  IF "phoneNumber" \in schemaKeys /\ Len(PhoneDigits(StrAt(d, "phoneNumber"))) # 10
        THEN Some(LabelOf(schema, "phoneNumber", "Phone Number") \o " must be exactly 10 digits")
        ELSE IF Len(missingLabels) > 0
        THEN Some("Please fill: " \o JoinComma(Dedup(missingLabels)))
        ELSE IF nextStatusInput = "APPT_SCHEDULED" /\ "apptDateTime" \in schemaKeys
                /\ nextApptDateTime = ""
        THEN Some(LabelOf(schema, "apptDateTime", "Appt date/time")
                  \o " must be set when Status is Appt scheduled")
        ELSE IF nextStatusInput = "NO_RESPONSE_3_ATTEMPTS"
                /\ "thirdPatientCommunication" \in schemaKeys /\ nextThirdCommunication = ""
        THEN Some(LabelOf(schema, "thirdPatientCommunication", "3rd patient communication")
                  \o " must be set when Status is No response (3 attempts)")
        ELSE IF nextStatusInput = "NO_RESPONSE_3_ATTEMPTS"
                /\ "apptDateTime" \in schemaKeys /\ nextApptDateTime # ""
        THEN Some(LabelOf(schema, "apptDateTime", "Appt date/time")
                  \o " must be empty when Status is No response (3 attempts)")
        ELSE None

\* data[col.key] as a text: '' where data holds nothing or null.
DataAt(d, schema, key) ==
    IF key \notin SchemaKeys(schema) \/ key = REFERRING_PROVIDER_PRACTICE_KEY THEN ""
    ELSE IF schema[KeyIndex(schema, key)].type = "datetime" THEN Str(toIsoDateTime(StrAt(d, key)))
    ELSE StrAt(d, key)

selectedProvider_FirstOption(d, options) ==
    LET id == StrAt(d, "referringProviderId")
    IN  IF Trim(id) # "" /\ id # OTHER_PROVIDER_VALUE /\ id # UNKNOWN_PROVIDER_VALUE
        THEN (IF Len(options) > 0 THEN Some(options[1]) ELSE None)
        ELSE None

selectedProvider(d, options) ==
    LET id == StrAt(d, "referringProviderId")
    IN  IF Trim(id) # "" /\ id # OTHER_PROVIDER_VALUE /\ id # UNKNOWN_PROVIDER_VALUE
        THEN FindProvider(options, id)
        ELSE None

resolvedProviderText(d, schema, options) ==
    IF selectedProvider(d, options) # None
    THEN providerLabel(selectedProvider(d, options)[1])
    ELSE DataAt(d, schema, "referringProvider")

resolvedProviderId(d, options) ==
    IF selectedProvider(d, options) # None
    THEN Some(selectedProvider(d, options)[1].id)
    ELSE None

resolvedProviderPractice(d, options) ==
    IF selectedProvider(d, options) # None
    THEN Str(selectedProvider(d, options)[1].provider_practice)
    ELSE ""

\* payload of saveDraft for a specialty with a table of its own.  row is
\* editingRow, nowIso what new Date().toISOString() gives.
SavePayload(d, schema, options, editing, row, nowIso) ==
    LET schemaKeys == SchemaKeys(schema)
        archived == row # None /\ row[1]["archived"] = TRUE
        nextStatus == Trim(DataAt(d, schema, "status"))
        prevStatus == IF row = None THEN "" ELSE Trim(StrAt(row[1], "status"))
        shouldTouchStatusUpdatedAt ==
            nextStatus # "" /\ (editing = None \/ nextStatus # prevStatus)
        columns ==
            {"record_status", "updated_at"}
            \cup (IF "dateReferralReceived" \in schemaKeys THEN {"date_referral_received"} ELSE {})
            \cup (IF "patientName" \in schemaKeys THEN {"patient_name"} ELSE {})
            \cup (IF "dob" \in schemaKeys THEN {"dob"} ELSE {})
            \cup (IF "phoneNumber" \in schemaKeys THEN {"phone"} ELSE {})
            \cup (IF {"referringProvider", "referringProviderId"} \cap schemaKeys # {}
                  THEN {"referral_provider", "referral_provider_id", "provider_practice"}
                  ELSE {})
            \cup (IF "reason" \in schemaKeys THEN {"reason"} ELSE {})
            \cup (IF "status" \in schemaKeys THEN {"status"} ELSE {})
            \cup (IF "status" \in schemaKeys /\ shouldTouchStatusUpdatedAt
                  THEN {"status_updated_at"} ELSE {})
            \cup (IF "emailSentAt" \in schemaKeys THEN {"email_sent_at"} ELSE {})
            \cup (IF "firstPatientCommunication" \in schemaKeys THEN {"communication_1"} ELSE {})
            \cup (IF "secondPatientCommunication" \in schemaKeys THEN {"communication_2"} ELSE {})
            \cup (IF "thirdPatientCommunication" \in schemaKeys THEN {"communication_3"} ELSE {})
            \cup (IF "apptDateTime" \in schemaKeys THEN {"appt_date_time"} ELSE {})
            \cup (IF "notes" \in schemaKeys THEN {"notes"} ELSE {})
    IN  [c \in columns |->
            CASE c = "record_status" -> Some(IF archived THEN "archived" ELSE "active")
              [] c = "updated_at" -> Some(nowIso)
              [] c = "date_referral_received" ->
                   toIsoDateOnly(DataAt(d, schema, "dateReferralReceived"))
              [] c = "patient_name" -> Some(DataAt(d, schema, "patientName"))
              [] c = "dob" -> toIsoDateOnly(DataAt(d, schema, "dob"))
              [] c = "phone" -> Some(DataAt(d, schema, "phoneNumber"))
              [] c = "referral_provider" -> Some(resolvedProviderText(d, schema, options))
              [] c = "referral_provider_id" -> resolvedProviderId(d, options)
              [] c = "provider_practice" -> Some(resolvedProviderPractice(d, options))
              [] c = "reason" -> Some(DataAt(d, schema, "reason"))
              [] c = "status" -> OrNull(nextStatus)
              [] c = "status_updated_at" -> Some(nowIso)
              [] c = "email_sent_at" -> toIsoDateTime(DataAt(d, schema, "emailSentAt"))
              [] c = "communication_1" ->
                   toIsoDateTime(DataAt(d, schema, "firstPatientCommunication"))
              [] c = "communication_2" ->
                   toIsoDateTime(DataAt(d, schema, "secondPatientCommunication"))
              [] c = "communication_3" ->
                   toIsoDateTime(DataAt(d, schema, "thirdPatientCommunication"))
              [] c = "appt_date_time" -> toIsoDateTime(DataAt(d, schema, "apptDateTime"))
              [] c = "notes" -> Some(DataAt(d, schema, "notes"))]

\* The Save button of the editor, up to the first await: the validation,
\* then the payload and the write request.
saveDraft_SkipsValidation ==
    /\ isEditorOpen
    /\ session # "none"
    /\ LET schema == editorSchema(editorSpecialty)
           error == None
           targetSpecialty == IF editingId # None THEN activeSpecialty ELSE editorSpecialty
       IN  IF error # None
           THEN /\ saveError' = error
                /\ UNCHANGED <<saves>>
           ELSE /\ saveError' = None
                /\ saves' = Append(saves,
                     [payload |-> SavePayload(tblDraft, schema, providerOptions, editingId,
                                              editingRow, NowIso),
                      editingId |-> editingId,
                      targetSpecialty |-> targetSpecialty,
                      activeSpecialty |-> activeSpecialty,
                      editorSpecialty |-> editorSpecialty,
                      resolvedProviderText |-> resolvedProviderText(tblDraft, schema, providerOptions),
                      resolvedProviderId |-> resolvedProviderId(tblDraft, providerOptions),
                      resolvedProviderPractice |-> resolvedProviderPractice(tblDraft, providerOptions)])
    /\ UNCHANGED <<dbReferrals, activeSpecialty, tblRows, isRowsLoading, tblRowsError,
                   providerOptions, isEditorOpen, editingId, editorSpecialty, tblDraft,
                   providerLoadPending, rowLoads, archives>>
    /\ UserStep
    /\ TblFrame

saveDraft ==
    /\ isEditorOpen
    /\ session # "none"
    /\ LET schema == editorSchema(editorSpecialty)
           error == saveDraftError(tblDraft, schema)
           targetSpecialty == IF editingId # None THEN activeSpecialty ELSE editorSpecialty
       IN  IF error # None
           THEN /\ saveError' = error
                /\ UNCHANGED <<saves>>
           ELSE /\ saveError' = None
                /\ saves' = Append(saves,
                     [payload |-> SavePayload(tblDraft, schema, providerOptions, editingId,
                                              editingRow, NowIso),
                      editingId |-> editingId,
                      targetSpecialty |-> targetSpecialty,
                      activeSpecialty |-> activeSpecialty,
                      editorSpecialty |-> editorSpecialty,
                      resolvedProviderText |-> resolvedProviderText(tblDraft, schema, providerOptions),
                      resolvedProviderId |-> resolvedProviderId(tblDraft, providerOptions),
                      resolvedProviderPractice |-> resolvedProviderPractice(tblDraft, providerOptions)])
    /\ UNCHANGED <<dbReferrals, activeSpecialty, tblRows, isRowsLoading, tblRowsError,
                   providerOptions, isEditorOpen, editingId, editorSpecialty, tblDraft,
                   providerLoadPending, rowLoads, archives>>
    /\ UserStep
    /\ TblFrame

RemoteColumns == DOMAIN RemoteReferral(0, None, None, None)

\* update(payload).eq('id', id) on a table
UpdateWhereId_ReplacesRow(table, id, payload) ==
    [i \in 1..Len(table) |->
        IF ToString(table[i].id) = id
        THEN [c \in RemoteColumns |->
                 IF c \in DOMAIN payload THEN payload[c]
                 ELSE IF c = "id" THEN table[i][c] ELSE None]
        ELSE table[i]]

UpdateWhereId(table, id, payload) ==
    [i \in 1..Len(table) |->
        IF ToString(table[i].id) = id
        THEN [c \in RemoteColumns |-> IF c \in DOMAIN payload THEN payload[c] ELSE table[i][c]]
        ELSE table[i]]

\* insert(payload) on a table: the store numbers the new row.
InsertRow(table, payload) ==
    Append(table, [c \in RemoteColumns |->
                      IF c = "id" THEN Len(table) + 1
                      ELSE IF c \in DOMAIN payload THEN payload[c] ELSE None])

\* The table a save's write leaves when the store does it.
SaveWrite(save) ==
    IF save.editingId # None
    THEN UpdateWhereId(dbReferrals[save.targetSpecialty], save.editingId[1], save.payload)
    ELSE InsertRow(dbReferrals[save.targetSpecialty], save.payload)

\* nextRow of saveDraft
SavedRow(save, id) ==
    LET mapped == mapReferralTableRecordToRow(
                      [c \in (DOMAIN save.payload) \cup {"id"} |->
                          IF c = "id" THEN id ELSE save.payload[c]],
                      editorSchema(save.editorSpecialty))
        r1 == Put(mapped, "referringProvider", save.resolvedProviderText)
        r2 == Put(r1, "referringProviderId",
                  IF save.resolvedProviderId # None
                  THEN ToString(save.resolvedProviderId[1]) ELSE "")
    IN  Put(r2, REFERRING_PROVIDER_PRACTICE_KEY, save.resolvedProviderPractice)

\* rows after a save's write is done
SavedRows(save, prev) ==
    IF save.targetSpecialty # save.activeSpecialty THEN prev
    ELSE IF save.editingId # None
    THEN [j \in 1..Len(prev) |->
            IF prev[j]["id"] = save.editingId[1]
            THEN SavedRow(save, Number(save.editingId[1]))
            ELSE prev[j]]
    ELSE <<SavedRow(save, Len(dbReferrals[save.targetSpecialty]) + 1)>> \o prev

SaveAnswered_ClosesOnError(i) ==
    LET save == saves[i]
    IN  /\ saves' = RemoveAt(saves, i)
        /\ \E error \in BOOLEAN :
             IF error
             THEN /\ CloseEditorSets(save.activeSpecialty)
                  /\ UNCHANGED <<dbReferrals, tblRows>>
             ELSE /\ dbReferrals' = [dbReferrals EXCEPT ![save.targetSpecialty] = SaveWrite(save)]
                  /\ tblRows' = SavedRows(save, tblRows)
                  /\ CloseEditorSets(save.activeSpecialty)
        /\ UNCHANGED <<activeSpecialty, isRowsLoading, tblRowsError, providerOptions,
                       providerLoadPending, rowLoads, archives>>
        /\ UNCHANGED tblClicks
        /\ TblFrame

\* The write of a save answers and saveDraft goes on after its await: the
\* catch, or the row and closeEditor().
SaveAnswered(i) ==
    LET save == saves[i]
    IN  /\ saves' = RemoveAt(saves, i)
        /\ \E error \in BOOLEAN :
             IF error
             THEN /\ saveError' = Some(RemoteErrorMessage)
                  /\ UNCHANGED <<dbReferrals, tblRows, isEditorOpen, editingId,
                                 editorSpecialty, tblDraft>>
             ELSE /\ dbReferrals' = [dbReferrals EXCEPT ![save.targetSpecialty] = SaveWrite(save)]
                  /\ tblRows' = SavedRows(save, tblRows)
                  /\ CloseEditorSets(save.activeSpecialty)
        /\ UNCHANGED <<activeSpecialty, isRowsLoading, tblRowsError, providerOptions,
                       providerLoadPending, rowLoads, archives>>
        /\ UNCHANGED tblClicks
        /\ TblFrame

\* ---- archiveRow

\* The Archive button of a row, confirmed: rendered for canEditRows only.
archiveRow(id) ==
    /\ ~isEditorOpen
    /\ canEditRows
    /\ FindRow(id) # None
    /\ session # "none"
    /\ archives' = Append(archives, [id |-> id, specialty |-> activeSpecialty])
    /\ UNCHANGED <<dbReferrals, activeSpecialty, tblRows, isRowsLoading, tblRowsError,
                   saveError, providerOptions, isEditorOpen, editingId, editorSpecialty,
                   tblDraft, providerLoadPending, rowLoads, saves>>
    /\ UserStep
    /\ TblFrame

\* The table an archive's write leaves when the store does it.
ArchiveWrite(archive) ==
    UpdateWhereId(dbReferrals[archive.specialty], archive.id,
                  [record_status |-> Some("archived"), updated_at |-> Some(NowIso)])

\* The write of an archive answers and archiveRow goes on after its await.
ArchiveAnswered(i) ==
    LET archive == archives[i]
    IN  /\ archives' = RemoveAt(archives, i)
        /\ \E error \in BOOLEAN :
             IF error
             THEN /\ tblRowsError' = Some(RemoteErrorMessage)
                  /\ UNCHANGED <<dbReferrals, tblRows>>
             ELSE /\ dbReferrals' = [dbReferrals EXCEPT ![archive.specialty] = ArchiveWrite(archive)]
                  /\ tblRows' = SelectSeq(tblRows, LAMBDA r : r["id"] # archive.id)
                  /\ UNCHANGED tblRowsError
        /\ UNCHANGED <<activeSpecialty, isRowsLoading, saveError, providerOptions,
                       isEditorOpen, editingId, editorSpecialty, tblDraft,
                       providerLoadPending, rowLoads, saves>>
        /\ UNCHANGED tblClicks
        /\ TblFrame

\* ---- the page

TblRowIds == {"1", "2"}

TblNext ==
    \/ ProviderOptionsLoaded
    \/ \E i \in 1..Len(rowLoads) : RowsLoaded(i)
    \/ \E i \in 1..Len(SPECIALTIES) : SetActiveSpecialty(SPECIALTIES[i])
    \/ openAdd
    \/ \E id \in TblRowIds : openEdit(id)
    \/ closeEditor
    \/ \E i \in 1..Len(SPECIALTIES) : SetEditorSpecialty(SPECIALTIES[i])
    \/ \E fill \in FormFills : FillDraft(fill)
    \/ saveDraft
    \/ \E i \in 1..Len(saves) : SaveAnswered(i)
    \/ \E id \in TblRowIds : archiveRow(id)
    \/ \E i \in 1..Len(archives) : ArchiveAnswered(i)

SpecTable == TblInit /\ [][TblNext]_vars

\* ---- claims on the referral table page

\* saveDraft or archiveRow has issued a write in this step.
TblWriteIssued == Len(saves') > Len(saves) \/ Len(archives') > Len(archives)

\* C1: every insert, update or archive of a referral that saveDraft or
\* archiveRow issues is issued in a state where canEdit(role) is true; no
\* write is issued for a guest or for a user without a role.
C1_WritesOnlyWithCanEdit ==
    [][TblWriteIssued => canEdit(RoleOf(access))]_vars

\* The entries of the remote directory whose id is the draft's provider id.
C8_Chosen ==
    {i \in 1..Len(dbProviders) :
        ToString(dbProviders[i].id) = StrAt(tblDraft, "referringProviderId")}

\* The three provider columns of a written record agree with the draft the
\* write was made from.
C8_Agrees(w) ==
    IF C8_Chosen # {}
    THEN \A i \in C8_Chosen :
            /\ w["referral_provider_id"] = Some(dbProviders[i].id)
            /\ w["referral_provider"] = dbProviders[i].referral_provider
            /\ w["provider_practice"] = dbProviders[i].provider_practice
    ELSE /\ w["referral_provider_id"] = None
         /\ w["referral_provider"] = Some(StrAt(tblDraft, "referringProvider"))

\* The rows of table after that are not rows of table before.
C8_NewRows(before, after) ==
    {after[j] : j \in 1..Len(after)} \ {before[j] : j \in 1..Len(before)}

\* C8: the record a save writes carries the three provider columns exactly
\* when the schema of the editor has the provider column, and then it has,
\* for a draft whose provider id is an id
\* of the directory, that id as referral_provider_id and that entry's name
\* and practice as referral_provider and provider_practice, whatever text
\* and practice the draft holds; for every other draft (Other, Unknown, an
\* id outside the directory) it has referral_provider_id null and the
\* draft's provider text as referral_provider.  The row the store holds
\* after the write carries the three values of the write.
C8_ProviderOfSavedRecord ==
    [][/\ Len(saves') > Len(saves) =>
            /\ ProviderInputsShown(editorSpecialty)
                  <=> "referral_provider" \in DOMAIN saves'[Len(saves')].payload
            /\ ProviderInputsShown(editorSpecialty) => C8_Agrees(saves'[Len(saves')].payload)
       /\ (Len(saves') < Len(saves) /\ dbReferrals' # dbReferrals) =>
            \E i \in 1..Len(saves) :
               /\ saves' = RemoveAt(saves, i)
               /\ \A r \in C8_NewRows(dbReferrals[saves[i].targetSpecialty],
                                      dbReferrals'[saves[i].targetSpecialty]) :
                     \A c \in {"referral_provider_id", "referral_provider", "provider_practice"}
                               \cap DOMAIN saves[i].payload :
                        r[c] = saves[i].payload[c]]_vars

\* A referral saved with directory provider 2, which is not the first
\* option of the directory, is in the table.
C8_Witness ==
    \E j \in 1..Len(dbReferrals["Colonoscopy and EGD"]) :
       LET r == dbReferrals["Colonoscopy and EGD"][j]
       IN  /\ r.id = 3
           /\ r.patient_name = Some("Ann Lee")
           /\ r.referral_provider_id = Some(2)
           /\ r.referral_provider = Some("Dr Baker")
           /\ r.provider_practice = Some("Elko Clinic")

\* What a step shows of the editor and the list.
C10_Local == <<tblRows, isEditorOpen, editingId, editorSpecialty, tblDraft>>

\* The step is the answer to save i: either the write is not done, the
\* message is in saveError and editor, draft and rows are as before, or
\* the write is done and the editor has closed without a message.
C10_SaveAnswer(i) ==
    /\ saves' = RemoveAt(saves, i)
    /\ \/ /\ dbReferrals' = dbReferrals
          /\ saveError' = Some(RemoteErrorMessage)
          /\ UNCHANGED C10_Local
       \/ /\ dbReferrals' = [dbReferrals EXCEPT ![saves[i].targetSpecialty] = SaveWrite(saves[i])]
          /\ saveError' = None
          /\ ~isEditorOpen'

\* The step is the answer to archive i: either the write is not done, the
\* message is in rowsError and rows is as before, or the write is done and
\* the row has left rows.
C10_ArchiveAnswer(i) ==
    /\ archives' = RemoveAt(archives, i)
    /\ \/ /\ dbReferrals' = dbReferrals
          /\ tblRowsError' = Some(RemoteErrorMessage)
          /\ tblRows' = tblRows
       \/ /\ dbReferrals' = [dbReferrals EXCEPT ![archives[i].specialty] = ArchiveWrite(archives[i])]
          /\ tblRowsError' = tblRowsError
          /\ \A j \in 1..Len(tblRows') : tblRows'[j]["id"] # archives[i].id

\* The step is the answer to row query i: a superseded query changes
\* nothing; otherwise the loading flag is cleared and either the message is
\* in rowsError and rows is empty, or rows holds the active rows of the table.
C10_LoadAnswer(i) ==
    /\ rowLoads' = RemoveAt(rowLoads, i)
    /\ IF ~rowLoads[i].isMounted
       THEN UNCHANGED <<tblRows, tblRowsError, isRowsLoading>>
       ELSE /\ ~isRowsLoading'
            /\ \/ /\ tblRowsError' = Some(RemoteErrorMessage)
                  /\ tblRows' = <<>>
               \/ /\ tblRowsError' = tblRowsError
                  /\ [j \in 1..Len(tblRows') |-> tblRows'[j]["id"]]
                     = [j \in 1..Len(ActiveNewestFirst(dbReferrals[rowLoads[i].specialty])) |->
                           ToString(ActiveNewestFirst(dbReferrals[rowLoads[i].specialty])[j].id)]

DateOnlyTexts ==
    <<"2024-04-29", "2024-04-30", "2024-05-01", "2024-05-02", "2024-05-03", "2024-05-04",
      "2024-05-05", "2024-05-06", "2024-05-07", "2024-05-08", "2024-05-09", "2024-05-10",
      "2024-05-11", "2024-05-12", "2024-05-13", "2024-05-14">>

\* new Date(text): None for an invalid date, or Some of the instant as a day
\* and an hour of UTC.  A date-only text is midnight UTC of its day; a text
\* with an offset is the instant it names.
NewDate(text) ==
    IF \E i \in 1..Len(DateOnlyTexts) : DateOnlyTexts[i] = text
    THEN Some([day |-> (CHOOSE i \in 1..Len(DateOnlyTexts) : DateOnlyTexts[i] = text) - 1,
               hour |-> 0])
    ELSE CASE text = "2024-05-06T17:00:00+00:00" -> Some([day |-> 7, hour |-> 17])
           [] text = "2024-05-07T02:00:00+00:00" -> Some([day |-> 8, hour |-> 2])
           [] text = "2024-05-06T23:00:00+00:00" -> Some([day |-> 7, hour |-> 23])
           [] OTHER -> None

\* The local calendar day of an instant in a zone offset hours east of UTC.
LocalDay(instant, offset) == instant.day + ((instant.hour + offset) \div 24)

\* Date.prototype.getDay of local day: 0 is Sunday.
GetDay(day) == (day + 1) % 7

\* The zones of the browsers of the model: Pacific daylight time, UTC and
\* central European summer time.
ZoneOffsets == {-7, 0, 2}

\* ---- rows as the filters read them

\* The keys at which a row holds a boolean.
BooleanKeys == {"archived", "ngmPatient"}

\* typeof r[k]
TypeOf(r, k) ==
    IF k \notin DOMAIN r THEN "undefined"
    ELSE IF k \in BooleanKeys THEN "boolean" ELSE "string"

\* parseDateForFilter(r[k]): None, or Some local day (the Date is set to local
\* midnight).
parseDateForFilter(text, offset) ==
    IF Trim(text) = "" THEN None
    ELSE IF NewDate(text) = None THEN None
    ELSE Some(LocalDay(NewDate(text)[1], offset))

parseRowDate(r, k, offset) ==
    IF TypeOf(r, k) # "string" THEN None ELSE parseDateForFilter(r[k], offset)

\* typeof v === 'boolean' ? (v ? 'yes' : 'no') : String(v ?? '')
SearchString(r, k) ==
    CASE TypeOf(r, k) = "boolean" -> IF r[k] THEN "yes" ELSE "no"
      [] TypeOf(r, k) = "undefined" -> ""
      [] OTHER -> r[k]

\* text.includes(q) on the lowercased texts of the model
Includes(text, q) ==
    \/ q = ""
    \/ text = q
    \/ q = "ann" /\ text = "ann lee"

filteredRows(rows, schema, by, text, key, from, to, offset) ==
    LET q == ToLowerCase(Trim(text))
        base == SelectSeq(rows, LAMBDA r : r["archived"] # TRUE)
        fromDay == IF from # "" THEN parseDateForFilter(from, offset) ELSE None
        toDay == IF to # "" THEN parseDateForFilter(to, offset) ELSE None
        toInclusive == IF toDay # None THEN Some(toDay[1] + 1) ELSE None
        InRange(r) ==
            LET d == parseRowDate(r, key, offset)
            IN  /\ d # None
                /\ ~(fromDay # None /\ d[1] < fromDay[1])
                /\ ~(toInclusive # None /\ d[1] >= toInclusive[1])
        dateFiltered ==
            IF key = "__none__" \/ (fromDay = None /\ toInclusive = None)
            THEN base
            ELSE SelectSeq(base, InRange)
        searchColKeys == IF by = "__all__" THEN [i \in 1..Len(schema) |-> schema[i].key]
                         ELSE <<by>>
        Matches(r) ==
            \E i \in 1..Len(searchColKeys) :
                Includes(ToLowerCase(SearchString(r, searchColKeys[i])), q)
    IN  IF q = "" THEN dateFiltered ELSE SelectSeq(dateFiltered, Matches)

\* aString < bString of JavaScript, as a rank, on the lowercased texts the
\* model sorts
CodeUnitRank(str) ==
    CASE str = "" -> 0
      [] str = "ann lee" -> 1
      [] str = "bo diaz" -> 2
      [] str = "cy moss" -> 3
      [] OTHER -> 4

\* The place of a row under the comparator of sortedRows, ascending.
SortRank(r, by) ==
    CASE TypeOf(r, by) = "boolean" -> IF r[by] THEN 1 ELSE 0
      [] TypeOf(r, by) = "undefined" -> CodeUnitRank("")
      [] OTHER -> CodeUnitRank(ToLowerCase(r[by]))

sortedRows_IgnoresDirection(filtered, by, dir) ==
    IF by = "__none__" THEN filtered
    ELSE StableSort(filtered, [i \in 1..Len(filtered) |-> SortRank(filtered[i], by)])

sortedRows(filtered, by, dir) ==
    IF by = "__none__" THEN filtered
    ELSE LET direction == IF dir = "asc" THEN 1 ELSE -1
         IN  StableSort(filtered,
                        [i \in 1..Len(filtered) |-> direction * SortRank(filtered[i], by)])

\* filteredRows and sortedRows of the page as it is.
pageSchema == baseSchema(activeSpecialty)

pageFilteredRows ==
    filteredRows(tblRows, pageSchema, searchBy, searchText, dateFilterKey, dateFrom, dateTo,
                 timeZoneOffset)

pageSortedRows == sortedRows(pageFilteredRows, sortBy, sortDir)

\* ---- downloadCsv

\* A text as the pieces the escape of downloadCsv tells apart: a double
\* quote, a comma, a line feed, a carriage return, or a run of other
\* characters.
Pieces(text) ==
    CASE text = "" -> <<>>
      [] text = "say \"hi\", ok" -> <<"say ", "\"", "hi", "\"", ",", " ok">>
      [] text = "line1\nline2" -> <<"line1", "\n", "line2">>
      [] text = "a\r" -> <<"a", "\r">>
      [] OTHER -> <<text>>

CsvSpecials == {"\"", ",", "\n", "\r"}

\* String(v ?? '') of a row value
StringOf(r, k) ==
    CASE TypeOf(r, k) = "boolean" -> IF r[k] THEN "true" ELSE "false"
      [] TypeOf(r, k) = "undefined" -> ""
      [] OTHER -> r[k]

RECURSIVE DoubleQuotes(_)
\* s.replace(/"/g, '""')
DoubleQuotes(pieces) ==
    IF pieces = <<>> THEN <<>>
    ELSE (IF Head(pieces) = "\"" THEN <<"\"", "\"">> ELSE <<Head(pieces)>>)
         \o DoubleQuotes(Tail(pieces))

escape_NoDoubling(pieces) ==
    LET needsQuotes == \E i \in 1..Len(pieces) : pieces[i] \in CsvSpecials
    IN  IF needsQuotes THEN <<"\"">> \o pieces \o <<"\"">> ELSE pieces

\* escape of downloadCsv, on the pieces of String(v ?? '')
escape(pieces) ==
    LET needsQuotes == \E i \in 1..Len(pieces) : pieces[i] \in CsvSpecials
        escaped == DoubleQuotes(pieces)
    IN  IF needsQuotes THEN <<"\"">> \o escaped \o <<"\"">> ELSE escaped

RECURSIVE JoinPieces(_, _)
\* fields.join(separator), on pieces
JoinPieces(fields, separator) ==
    IF fields = <<>> THEN <<>>
    ELSE IF Len(fields) = 1 THEN fields[1]
    ELSE fields[1] \o <<separator>> \o JoinPieces(Tail(fields), separator)

\* csv of downloadCsv: the pieces of the file
CsvOf(sorted, cols) ==
    LET header == [i \in 1..Len(cols) |-> escape(Pieces(cols[i].label))]
        Line(r) == JoinPieces([i \in 1..Len(cols) |-> escape(Pieces(StringOf(r, cols[i].key)))],
                              ",")
        lines == <<JoinPieces(header, ",")>> \o [j \in 1..Len(sorted) |-> Line(sorted[j])]
    IN  JoinPieces(lines, "\n") \o <<"\n">>

\* ---- the page with rows loaded

\* A record of referrals_heme_onc_rice.
ViewReferral(id, name, received, appt, ngm, notes) ==
    ("ngm_patient" :> ngm) @@
    [RemoteReferral(id, None, None, None) EXCEPT
        !.patient_name = name, !.date_referral_received = received,
        !.appt_date_time = appt, !.notes = notes]

\* What referrals_heme_onc_rice holds, oldest row first.
ViewRemoteTable ==
    <<ViewReferral(1, Some("Bo Diaz"), Some("2024-05-06"), None, Some(FALSE),
                   Some("line1\nline2")),
      ViewReferral(2, Some("ann lee"), None, Some("2024-05-07T02:00:00+00:00"), Some(TRUE),
                   Some("")),
      ViewReferral(3, Some("Cy Moss"), Some("2024-05-07"), Some("2024-05-06T23:00:00+00:00"),
                   None, Some("a\r")),
      ViewReferral(4, Some("Ann Lee"), Some("2024-05-05"), Some("2024-05-06T17:00:00+00:00"),
                   Some(TRUE), Some("say \"hi\", ok"))>>

\* The page of a signed-in editor who has clicked the Heme Onc Rice tab and
\* whose rows have loaded; nothing is in flight.
FltInit ==
    /\ authUser = "u1"
    /\ userAccessRow = Some([role |-> "editor", status |-> "active"])
    /\ session = "u1"
    /\ isLoading = FALSE
    /\ authInitPending = FALSE
    /\ access = fetchUserAccess(FALSE, "u1", FALSE, userAccessRow)
    /\ loading = FALSE
    /\ refreshes = <<>>
    /\ path = "/table"
    /\ urlReason = ""
    /\ hasRecovery = FALSE
    /\ dbProviders = <<>>
    /\ dbReferrals = [s \in {"Heme Onc Rice"} |-> ViewRemoteTable]
    /\ activeSpecialty = "Heme Onc Rice"
    /\ tblRows = [j \in 1..Len(ViewRemoteTable) |->
                    mapReferralTableRecordToRow(ActiveNewestFirst(ViewRemoteTable)[j],
                                                baseSchema("Heme Onc Rice"))]
    /\ isRowsLoading = FALSE
    /\ tblRowsError = None
    /\ saveError = None
    /\ providerOptions = <<>>
    /\ isEditorOpen = FALSE
    /\ editingId = None
    /\ editorSpecialty = SPECIALTIES[1]
    /\ tblDraft = createEmptyDraft(baseSchema(SPECIALTIES[1]))
    /\ providerLoadPending = FALSE
    /\ rowLoads = <<>>
    /\ saves = <<>>
    /\ archives = <<>>
    /\ tblClicks = 0
    /\ timeZoneOffset \in ZoneOffsets
    /\ searchBy = "__all__"
    /\ searchText = ""
    /\ dateFilterKey = defaultDateKey(baseSchema("Heme Onc Rice"))
    /\ dateFrom = ""
    /\ dateTo = ""
    /\ sortBy = "__none__"
    /\ sortDir = "asc"
    /\ pinnedKeys = <<>>
    /\ csvFile = None
    /\ MailIdle /\ UpdIdle /\ SetIdle /\ RepIdle /\ SchIdle
    /\ NoteIdle /\ UmIdle

\* What an input of the toolbar leaves alone.
ViewFrame == PageFrame /\ UNCHANGED tblVars

\* The values the model's user gives to the toolbar.
SearchByValues == {"__all__", "patientName", "ngmPatient"}
SearchTexts == {"", " ANN ", "yes", "zz"}
SortByValues == {"__none__", "patientName", "ngmPatient"}
DateInputs == {"", "2024-05-06"}

SetSearchBy(v) ==
    /\ v # searchBy
    /\ searchBy' = v
    /\ UNCHANGED <<timeZoneOffset, searchText, dateFilterKey, dateFrom, dateTo, sortBy,
                   sortDir, pinnedKeys, csvFile>>
    /\ ViewFrame

SetSearchText(v) ==
    /\ v # searchText
    /\ searchText' = v
    /\ UNCHANGED <<timeZoneOffset, searchBy, dateFilterKey, dateFrom, dateTo, sortBy,
                   sortDir, pinnedKeys, csvFile>>
    /\ ViewFrame

SetDateFilterKey(v) ==
    /\ v # dateFilterKey
    /\ v \in {"__none__"} \cup SchemaKeys(dateColumns(pageSchema))
    /\ dateFilterKey' = v
    /\ UNCHANGED <<timeZoneOffset, searchBy, searchText, dateFrom, dateTo, sortBy,
                   sortDir, pinnedKeys, csvFile>>
    /\ ViewFrame

SetDateFrom(v) ==
    /\ v # dateFrom
    /\ dateFrom' = v
    /\ UNCHANGED <<timeZoneOffset, searchBy, searchText, dateFilterKey, dateTo, sortBy,
                   sortDir, pinnedKeys, csvFile>>
    /\ ViewFrame

SetDateTo(v) ==
    /\ v # dateTo
    /\ dateTo' = v
    /\ UNCHANGED <<timeZoneOffset, searchBy, searchText, dateFilterKey, dateFrom, sortBy,
                   sortDir, pinnedKeys, csvFile>>
    /\ ViewFrame

SetSortBy(v) ==
    /\ v # sortBy
    /\ v \in {"__none__"} \cup SchemaKeys(pageSchema)
    /\ sortBy' = v
    /\ UNCHANGED <<timeZoneOffset, searchBy, searchText, dateFilterKey, dateFrom, dateTo,
                   sortDir, pinnedKeys, csvFile>>
    /\ ViewFrame

\* The direction button.
ToggleSortDir ==
    /\ sortDir' = IF sortDir = "asc" THEN "desc" ELSE "asc"
    /\ UNCHANGED <<timeZoneOffset, searchBy, searchText, dateFilterKey, dateFrom, dateTo,
                   sortBy, pinnedKeys, csvFile>>
    /\ ViewFrame

\* The Download CSV button: the file is made of schema and sortedRows.
downloadCsv ==
    /\ csvFile' = Some(CsvOf(pageSortedRows, pageSchema))
    /\ UNCHANGED <<timeZoneOffset, searchBy, searchText, dateFilterKey, dateFrom, dateTo,
                   sortBy, sortDir, pinnedKeys>>
    /\ ViewFrame

FltNext ==
    \/ \E v \in SearchByValues : SetSearchBy(v)
    \/ \E v \in SearchTexts : SetSearchText(v)
    \/ \E v \in {"__none__", "dateReferralReceived", "apptDateTime"} : SetDateFilterKey(v)
    \/ \E v \in DateInputs : SetDateFrom(v)
    \/ \E v \in DateInputs : SetDateTo(v)
    \/ \E v \in SortByValues : SetSortBy(v)
    \/ ToggleSortDir

SpecFilter == FltInit /\ [][FltNext]_vars

\* ---- claims on the filters

\* The calendar day a value of a date field shows: the day of a date-only
\* text, the local day of an instant; None for a value that is no date.
C11_DayOf(text) ==
    IF \E i \in 1..Len(DateOnlyTexts) : DateOnlyTexts[i] = text
    THEN Some((CHOOSE i \in 1..Len(DateOnlyTexts) : DateOnlyTexts[i] = text) - 1)
    ELSE IF NewDate(text) = None THEN None
    ELSE Some(LocalDay(NewDate(text)[1], timeZoneOffset))

C11_RowDay(r) ==
    IF TypeOf(r, dateFilterKey) # "string" THEN None ELSE C11_DayOf(r[dateFilterKey])

C11_InRange(r) ==
    (dateFilterKey # "__none__" /\ (dateFrom # "" \/ dateTo # "")) =>
        /\ C11_RowDay(r) # None
        /\ dateFrom # "" => C11_DayOf(dateFrom)[1] <= C11_RowDay(r)[1]
        /\ dateTo # "" => C11_RowDay(r)[1] <= C11_DayOf(dateTo)[1]

C11_Found(r) ==
    LET q == ToLowerCase(Trim(searchText))
        searched == IF searchBy = "__all__" THEN SchemaKeys(pageSchema) ELSE {searchBy}
    IN  q # "" => \E k \in searched : Includes(ToLowerCase(SearchString(r, k)), q)

C11_Kept(r) == r["archived"] # TRUE /\ C11_InRange(r) /\ C11_Found(r)

\* C11: filteredRows is the loaded rows, in their order, that are not
\* archived, that hold in the chosen date field a day d with
\* From <= d <= To when a date field is chosen and From or To is given
\* (rows without a valid date left out), and that contain the trimmed
\* search text, case-insensitively, in a searched column when it is not
\* empty, a checkbox matching as 'yes' or 'no'.
C11_FilteredRowsExact == pageFilteredRows = SelectSeq(tblRows, C11_Kept)

\* ---- claims on the sort

\* a comes before b under the case-insensitive comparison of the sort
\* column, false before true for two checkbox values.
C12_Less(a, b) ==
    IF TypeOf(a, sortBy) = "boolean" /\ TypeOf(b, sortBy) = "boolean"
    THEN ~a[sortBy] /\ b[sortBy]
    ELSE CodeUnitRank(ToLowerCase(StringOf(a, sortBy)))
         < CodeUnitRank(ToLowerCase(StringOf(b, sortBy)))

C12_Count(rows, r) == Cardinality({i \in 1..Len(rows) : rows[i] = r})

C12_SortedNow ==
    LET filtered == pageFilteredRows
        sorted == pageSortedRows
    IN  /\ Len(sorted) = Len(filtered)
        /\ \A i \in 1..Len(filtered) :
              C12_Count(sorted, filtered[i]) = C12_Count(filtered, filtered[i])
        /\ sortBy = "__none__" => sorted = filtered
        /\ sortBy # "__none__" =>
              \A i \in 1..(Len(sorted) - 1) :
                 IF sortDir = "asc"
                 THEN ~C12_Less(sorted[i + 1], sorted[i])
                 ELSE ~C12_Less(sorted[i], sorted[i + 1])

\* C12: sortedRows is a permutation of filteredRows; with sort None it is
\* filteredRows; with a column chosen no row is followed by one that
\* comes before it (ascending) or after it (descending) under the
\* case-insensitive comparison of that column, false before true for
\* checkboxes; a change of the sort column or direction changes neither
\* rows nor filteredRows.
C12_SortedRowsPermutation ==
    /\ []C12_SortedNow
    /\ [][(sortBy' # sortBy \/ sortDir' # sortDir) =>
             /\ tblRows' = tblRows
             /\ filteredRows(tblRows', baseSchema(activeSpecialty'), searchBy', searchText',
                             dateFilterKey', dateFrom', dateTo', timeZoneOffset')
                = pageFilteredRows]_vars

\* The four rows are shown by patient name, descending, and that is not
\* the load order; two of the names differ in case only.
C12_Witness ==
    LET sorted == pageSortedRows
    IN  /\ sortBy = "patientName"
        /\ sortDir = "desc"
        /\ Len(sorted) = 4
        /\ sorted # pageFilteredRows
        /\ \E i \in 1..3 : /\ sorted[i]["patientName"] # sorted[i + 1]["patientName"]
                           /\ ~C12_Less(sorted[i], sorted[i + 1])
                           /\ ~C12_Less(sorted[i + 1], sorted[i])

\* The toolbar with the Download CSV button, searching and sorting.
CsvNext ==
    \/ \E v \in {"", " ANN "} : SetSearchText(v)
    \/ \E v \in {"__none__", "patientName"} : SetSortBy(v)
    \/ ToggleSortDir
    \/ downloadCsv

SpecCsv == FltInit /\ [][CsvNext]_vars

\* ---- claims on downloadCsv

\* A piece of a CSV file is outside a quoted field iff an even number of
\* double quotes comes before it.
C13_Outside(file, i) == Cardinality({j \in 1..(i - 1) : file[j] = "\""}) % 2 = 0

\* The k-th position of a set of positions.
C13_Nth(positions, k) ==
    CHOOSE x \in positions : Cardinality({y \in positions : y < x}) = k - 1

\* The pieces of file from lo to hi, cut at the positions of cuts.
C13_Cut(file, lo, hi, cuts) ==
    [k \in 1..(Cardinality(cuts) + 1) |->
        SubSeq(file,
               IF k = 1 THEN lo ELSE C13_Nth(cuts, k - 1) + 1,
               IF k = Cardinality(cuts) + 1 THEN hi ELSE C13_Nth(cuts, k) - 1)]

RECURSIVE C13_Halve(_)
\* Every doubled double quote of a quoted field, read as one.
C13_Halve(pieces) ==
    IF pieces = <<>> THEN <<>>
    ELSE IF Len(pieces) >= 2 /\ pieces[1] = "\"" /\ pieces[2] = "\""
    THEN <<"\"">> \o C13_Halve(SubSeq(pieces, 3, Len(pieces)))
    ELSE <<pieces[1]>> \o C13_Halve(Tail(pieces))

\* A field as a standard reader takes it.
C13_Field(pieces) ==
    IF pieces # <<>> /\ pieces[1] = "\""
    THEN C13_Halve(SubSeq(pieces, 2, Len(pieces) - 1))
    ELSE pieces

\* The records of a CSV file as a standard reader takes them: a line feed
\* outside quotes ends a record, a comma outside quotes ends a field.
C13_Unquote(file) ==
    LET ends == {i \in 1..Len(file) : file[i] = "\n" /\ C13_Outside(file, i)}
        lines == C13_Cut(file, 1, Len(file), ends)
        Record(k) ==
            LET lo == IF k = 1 THEN 1 ELSE C13_Nth(ends, k - 1) + 1
                hi == C13_Nth(ends, k) - 1
                commas == {i \in lo..hi : file[i] = "," /\ C13_Outside(file, i)}
                fields == C13_Cut(file, lo, hi, commas)
            IN  [f \in 1..Len(fields) |-> C13_Field(fields[f])]
    IN  [k \in 1..Cardinality(ends) |-> Record(k)]
        \o (IF lines[Len(lines)] = <<>> THEN <<>> ELSE <<<<lines[Len(lines)]>>>>)

\* The records the file of the page is to hold: the labels, then the rows
\* shown, each in schema column order.
C13_Records ==
    LET sorted == pageSortedRows
    IN  <<[i \in 1..Len(pageSchema) |-> Pieces(pageSchema[i].label)]>>
        \o [j \in 1..Len(sorted) |->
               [i \in 1..Len(pageSchema) |-> Pieces(StringOf(sorted[j], pageSchema[i].key))]]

\* The fields of those records.
C13_Fields == UNION {{C13_Records[j][i] : i \in 1..Len(C13_Records[j])} : j \in 1..Len(C13_Records)}

\* C13: the file downloadCsv makes reads back, under standard CSV
\* unquoting, as one record of the labels of all schema columns followed
\* by one record per row of sortedRows, in the order shown and with the
\* filters applied, each with the row's values in schema column order; a
\* field is wrapped in double quotes, inner quotes doubled, iff it holds a
\* double quote, a comma, CR or LF.
C13_CsvReadsBack ==
    [][csvFile' # csvFile =>
          /\ csvFile' # None
          /\ C13_Unquote(csvFile'[1]) = C13_Records
          /\ \A f \in C13_Fields :
                IF \E i \in 1..Len(f) : f[i] \in CsvSpecials
                THEN escape(f) = <<"\"">> \o DoubleQuotes(f) \o <<"\"">>
                ELSE escape(f) = f]_vars

\* A file has been downloaded of the two rows found by the search, sorted
\* by name; one of them holds quotes and a comma in its notes.
C13_Witness ==
    /\ csvFile = Some(CsvOf(pageSortedRows, pageSchema))
    /\ sortBy = "patientName"
    /\ Trim(searchText) # ""
    /\ Len(pageSortedRows) = 2
    /\ \E j \in 1..2 : pageSortedRows[j]["notes"] = "say \"hi\", ok"

\* ---- Referral table page: column order and frozen columns

orderSchema_firstKeys ==
    <<"dateReferralReceived", "patientName", "dob", "phoneNumber", "insurance",
      REFERRING_PROVIDER_PRACTICE_KEY, "referringProvider">>

orderSchema(cols) ==
    LET reasonIdx == KeyIndex(cols, "reason")
        notesIdx == KeyIndex(cols, "notes")
        reasonNotesRemoved == SelectSeq(cols, LAMBDA c : c.key # "reason" /\ c.key # "notes")
        firstKeys == SelectSeq(orderSchema_firstKeys,
                               LAMBDA k : k \in SchemaKeys(reasonNotesRemoved))
        first == [i \in 1..Len(firstKeys) |->
                    reasonNotesRemoved[KeyIndex(reasonNotesRemoved, firstKeys[i])]]
        firstSet == SchemaKeys(first)
        middle == SelectSeq(reasonNotesRemoved, LAMBDA c : c.key \notin firstSet)
        extras == (IF reasonIdx # 0 THEN <<cols[reasonIdx]>> ELSE <<>>)
                  \o (IF notesIdx # 0 THEN <<cols[notesIdx]>> ELSE <<>>)
    IN  first \o extras \o middle

orderedSchema == orderSchema(pageSchema)

\* new Set(pinnedKeys) without reason and notes
PinnedSet(pinned) == {pinned[i] : i \in 1..Len(pinned)} \ {"reason", "notes"}

pinnedKeysInSchemaOrder ==
    LET pinned == SelectSeq(orderedSchema, LAMBDA c : c.key \in PinnedSet(pinnedKeys))
    IN  [i \in 1..Len(pinned) |-> pinned[i].key]

displaySchema ==
    IF Len(pinnedKeys) = 0 THEN orderedSchema
    ELSE SelectSeq(orderedSchema, LAMBDA c : c.key \in PinnedSet(pinnedKeys))
         \o SelectSeq(orderedSchema, LAMBDA c : c.key \notin PinnedSet(pinnedKeys))

\* stickyStyle gives a style to the column at this 1-based place of the table.
stickyStyle(index) == index <= Len(pinnedKeysInSchemaOrder)

\* pinnedKeys.includes(key): the box of the column is shown checked.
MenuChecked(key) == \E i \in 1..Len(pinnedKeys) : pinnedKeys[i] = key

\* The number after # in the menu: indexOf + 1, 0 where indexOf gives -1.
MenuBadge(key) ==
    IF \E i \in 1..Len(pinnedKeysInSchemaOrder) : pinnedKeysInSchemaOrder[i] = key
    THEN CHOOSE i \in 1..Len(pinnedKeysInSchemaOrder) : pinnedKeysInSchemaOrder[i] = key
    ELSE 0

\* The columns whose boxes the user of the model clicks: one that every
\* schema has, one that each of the two schemas has alone, reason and notes.
FreezeKeys == {"patientName", "referringProvider", "dateCancelled", "reason", "notes"}

\* The box of a column in the freeze menu is clicked; the box is controlled,
\* so the click asks for the opposite of what is shown.
TogglePinned(key) ==
    /\ key \in SchemaKeys(pageSchema)
    /\ LET nextChecked == ~MenuChecked(key)
       IN  pinnedKeys' = IF nextChecked
                         THEN (IF MenuChecked(key) THEN pinnedKeys ELSE Append(pinnedKeys, key))
                         ELSE SelectSeq(pinnedKeys, LAMBDA k : k # key)
    /\ UNCHANGED <<timeZoneOffset, searchBy, searchText, dateFilterKey, dateFrom, dateTo,
                   sortBy, sortDir, csvFile>>
    /\ ViewFrame

\* 'Clear frozen columns', shown while a key is pinned.
ClearPinned ==
    /\ Len(pinnedKeys) # 0
    /\ pinnedKeys' = <<>>
    /\ UNCHANGED <<timeZoneOffset, searchBy, searchText, dateFilterKey, dateFrom, dateTo,
                   sortBy, sortDir, csvFile>>
    /\ ViewFrame

FrzNext ==
    \/ \E i \in 1..Len(rowLoads) : RowsLoaded(i)
    \/ \E i \in 1..Len(SPECIALTIES) : SetActiveSpecialty(SPECIALTIES[i])
    \/ \E key \in FreezeKeys : TogglePinned(key)
    \/ ClearPinned

SpecFreeze == TblInit /\ [][FrzNext]_vars

\* ---- claims on the frozen columns

\* The displayed columns are the columns of the schema, each once.
C14_Permutation ==
    /\ Len(displaySchema) = Len(pageSchema)
    /\ \A i \in 1..Len(pageSchema) :
         Cardinality({j \in 1..Len(displaySchema) : displaySchema[j] = pageSchema[i]}) = 1

\* C14: after any freeze-menu checks, unchecks, clears and specialty switches
\* the displayed columns are a permutation of the schema, and every column
\* the menu shows checked is one of the leftmost sticky columns, its badge
\* being its 1-based place among the displayed columns.
C14_CheckedColumnsAreSticky ==
    /\ C14_Permutation
    /\ \A i \in 1..Len(pageSchema) :
         LET key == pageSchema[i].key
         IN  MenuChecked(key) =>
               /\ MenuBadge(key) \in 1..Len(displaySchema)
               /\ displaySchema[MenuBadge(key)].key = key
               /\ stickyStyle(MenuBadge(key))

\* ---- Referral table page: the schema helpers on every specialty schema

SPECIALTIES_Full ==
    <<"Colonoscopy and EGD", "General Surgery", "Spine Neuro Rajamand", "Ortho",
      "Ophthalmology", "IR Carlevato", "Heme Onc Rice", "Infusion", "Women's Health",
      "Cardio Deschutter", "Singh Cancellations", "Hernia Sx Waitlist">>

\* SCHEMAS with every column of every specialty; SCHEMAS(s) above is this
\* table cut down to the columns the pages of the model work on.
SCHEMAS_Full(s) ==
    CASE s = "Colonoscopy and EGD" ->
           <<Col("dateReferralReceived", "Date Referral Received", "date"),
             Col("patientName", "Patient Name", "text"),
             Col("dob", "DOB", "date"),
             Col("phoneNumber", "Phone Number", "text"),
             Col("insurance", "Insurance", "text"),
             Col("referringProvider", "Referral Provider", "text"),
             Col("reason", "Reason", "text"),
             Col("formsSent", "Forms Sent", "checkbox"),
             Col("formReceived", "Form Received", "text"),
             Col("calledToSchedule", "Called to schedule", "checkbox"),
             Col("prepInstructionSent", "Prep Instruction sent", "checkbox"),
             Col("firstPatientCommunication", "1st patient communication", "datetime"),
             Col("secondPatientCommunication", "2nd patient communication", "datetime"),
             Col("thirdPatientCommunication", "3rd patient communication", "datetime"),
             Col("apptDateTime", "Appt date/time", "datetime"),
             Col("notes", "Notes", "text")>>
      [] s = "General Surgery" ->
           <<Col("dateReferralReceived", "Date Referral Received", "date"),
             Col("patientName", "Patient Name", "text"),
             Col("dob", "DOB", "date"),
             Col("phoneNumber", "Phone", "text"),
             Col("insurance", "Insurance", "text"),
             Col("referringProvider", "Referral Provider", "text"),
             Col("reason", "Reason", "text"),
             Col("firstPatientCommunication", "1st Communication", "datetime"),
             Col("secondPatientCommunication", "2nd Communication", "datetime"),
             Col("thirdPatientCommunication", "3rd Communication", "datetime"),
             Col("apptDateTime", "Appt date and time", "datetime"),
             Col("notes", "Notes", "text")>>
      [] s = "Spine Neuro Rajamand" ->
           <<Col("dateReferralReceived", "Date Referral Received", "date"),
             Col("patientName", "Patient Name", "text"),
             Col("dob", "DOB", "date"),
             Col("phoneNumber", "Phone", "text"),
             Col("insurance", "Insurance", "text"),
             Col("referringProvider", "Referral Provider", "text"),
             Col("reason", "Reason", "text"),
             Col("firstPatientCommunication", "1st Communication", "datetime"),
             Col("secondPatientCommunication", "2nd Communication", "datetime"),
             Col("thirdPatientCommunication", "3rd Communication", "datetime"),
             Col("apptDateTime", "Appt date and time", "datetime"),
             Col("notes", "Notes", "text")>>
      [] s = "Ortho" ->
           <<Col("dateReferralReceived", "Date Referral Received", "date"),
             Col("patientName", "Patient Name", "text"),
             Col("dob", "DOB", "date"),
             Col("phoneNumber", "Phone", "text"),
             Col("insurance", "Insurance", "text"),
             Col("referringProvider", "Referral Provider", "text"),
             Col("reason", "Reason", "text"),
             Col("notes", "Notes", "text"),
             Col("firstPatientCommunication", "1st Communication", "datetime"),
             Col("secondPatientCommunication", "2nd Communication", "datetime"),
             Col("thirdPatientCommunication", "3rd Communication", "datetime"),
             Col("apptDateTime", "Appt date and time", "datetime"),
             Col("notes2", "Notes 2", "text")>>
      [] s = "Ophthalmology" ->
           <<Col("dateReferralReceived", "Date Referral Received", "date"),
             Col("patientName", "Patient Name", "text"),
             Col("dob", "DOB", "date"),
             Col("phoneNumber", "Phone", "text"),
             Col("insurance", "Insurance", "text"),
             Col("referringProvider", "Referral Provider", "text"),
             Col("reason", "Reason", "text"),
             Col("firstPatientCommunication", "1st Communication", "datetime"),
             Col("secondPatientCommunication", "2nd Communication", "datetime"),
             Col("thirdPatientCommunication", "3rd Communication", "datetime"),
             Col("apptDateTime", "Appt date and time", "datetime")>>
      [] s = "IR Carlevato" ->
           <<Col("dateReferralReceived", "Date Referral Received", "date"),
             Col("patientName", "Patient Name", "text"),
             Col("dob", "DOB", "date"),
             Col("phoneNumber", "Phone", "text"),
             Col("insurance", "Insurance", "text"),
             Col("referringProvider", "Referral Provider", "text"),
             Col("reason", "Reason", "text"),
             Col("firstPatientCommunication", "1st Communication", "datetime"),
             Col("secondPatientCommunication", "2nd Communication", "datetime"),
             Col("thirdPatientCommunication", "3rd Communication", "datetime"),
             Col("apptDateTime", "Appt date and time", "datetime")>>
      [] s = "Heme Onc Rice" ->
           <<Col("dateReferralReceived", "Date Referral Received", "date"),
             Col("patientName", "Patient Name", "text"),
             Col("dob", "DOB", "date"),
             Col("phoneNumber", "Phone", "text"),
             Col("insurance", "Insurance", "text"),
             Col("ngmPatient", "NGM Patient?", "checkbox"),
             Col("referringProvider", "Referral Provider", "text"),
             Col("reason", "Reason", "text"),
             Col("firstPatientCommunication", "1st Communication", "datetime"),
             Col("secondPatientCommunication", "2nd Communication", "datetime"),
             Col("thirdPatientCommunication", "3rd Communication", "datetime"),
             Col("apptDateTime", "Appt date and time", "datetime"),
             Col("notes", "Notes", "text")>>
      [] s = "Infusion" ->
           <<Col("dateReferralReceived", "Date Referral Received", "date"),
             Col("patientName", "Patient Name", "text"),
             Col("dob", "DOB", "date"),
             Col("phoneNumber", "Phone", "text"),
             Col("insurance", "Insurance", "text"),
             Col("ngmPatient", "NGM Patient", "checkbox"),
             Col("referringProvider", "Referral Provider", "text"),
             Col("reason", "Reason", "text"),
             Col("firstPatientCommunication", "1st Communication", "datetime"),
             Col("secondPatientCommunication", "2nd Communication", "datetime"),
             Col("thirdPatientCommunication", "3rd Communication", "datetime"),
             Col("apptDateTime", "Appt date and time", "datetime")>>
      [] s = "Women's Health" ->
           <<Col("dateReferralReceived", "Date Referral Received", "date"),
             Col("patientName", "Patient Name", "text"),
             Col("dob", "DOB", "date"),
             Col("phoneNumber", "Phone", "text"),
             Col("insurance", "Insurance", "text"),
             Col("referringProvider", "Referral Provider", "text"),
             Col("reason", "Reason", "text"),
             Col("firstPatientCommunication", "1st Communication", "datetime"),
             Col("secondPatientCommunication", "2nd Communication", "datetime"),
             Col("thirdPatientCommunication", "3rd Communication", "datetime"),
             Col("apptDateTime", "Appt date and time", "datetime"),
             Col("notes", "Notes", "text")>>
      [] s = "Cardio Deschutter" ->
           <<Col("dateReferralReceived", "Date Referral Received", "date"),
             Col("patientName", "Patient Name", "text"),
             Col("dob", "DOB", "date"),
             Col("phoneNumber", "Phone", "text"),
             Col("insurance", "Insurance", "text"),
             Col("referringProvider", "Referral Provider", "text"),
             Col("reason", "Reason", "text"),
             Col("firstPatientCommunication", "1st Communication", "datetime"),
             Col("secondPatientCommunication", "2nd Communication", "datetime"),
             Col("thirdPatientCommunication", "3rd Communication", "datetime"),
             Col("apptDateTime", "Appt date and time", "datetime")>>
      [] s = "Singh Cancellations" ->
           <<Col("needsCall", "Needs Call", "checkbox"),
             Col("dateCancelled", "Date Cancelled", "date"),
             Col("patientName", "Patient Name", "text"),
             Col("dob", "DOB", "date"),
             Col("phoneNumber", "Phone", "text"),
             Col("insurance", "Insurance", "text"),
             Col("reason", "Reason", "text"),
             Col("firstPatientCommunication", "1st Communication", "datetime"),
             Col("secondPatientCommunication", "2nd Communication", "datetime"),
             Col("thirdPatientCommunication", "3rd Communication", "datetime"),
             Col("apptDateTime", "Appt date and time", "datetime"),
             Col("notes", "Notes", "text")>>
      [] s = "Hernia Sx Waitlist" ->
           <<Col("dateReferralReceived", "Date Referral Received", "date"),
             Col("patientName", "Patient Name", "text"),
             Col("dob", "DOB", "date"),
             Col("phoneNumber", "Phone", "text"),
             Col("insurance", "Insurance", "text"),
             Col("reason", "Reason", "text"),
             Col("firstPatientCommunication", "1st Communication", "datetime"),
             Col("secondPatientCommunication", "2nd Communication", "datetime"),
             Col("thirdPatientCommunication", "3rd Communication", "datetime"),
             Col("apptDateTime", "Appt date and time", "datetime")>>

HelperNames ==
    {"withReferringProviderPractice", "withReasonNotesAfterReferringProvider",
     "withStatusEmailSentAfterApptDateTime", "withStatusAfterApptDateTime", "orderSchema"}

ApplyHelper(name, schema) ==
    CASE name = "withReferringProviderPractice" -> withReferringProviderPractice(schema)
      [] name = "withReasonNotesAfterReferringProvider" ->
           withReasonNotesAfterReferringProvider(schema)
      [] name = "withStatusEmailSentAfterApptDateTime" ->
           withStatusEmailSentAfterApptDateTime(schema)
      [] name = "withStatusAfterApptDateTime" -> withStatusAfterApptDateTime(schema)
      [] name = "orderSchema" -> orderSchema(schema)

MaxHelperCalls == 3

SchFrame == UNCHANGED <<authVars, mailVars, dbVars, updVars, setVars, tblVars, viewVars,
                        repVars, noteVars, umVars>>

\* Before the first call helperOutput holds the schema of a specialty.
SchInit ==
    /\ helperName = ""
    /\ helperInput = <<>>
    /\ helperOutput \in {SCHEMAS_Full(SPECIALTIES_Full[i]) : i \in 1..Len(SPECIALTIES_Full)}
                        \cup {SCHEMAS(s) : s \in {"Colonoscopy and EGD", "Singh Cancellations",
                                                  "Heme Onc Rice"}}
    /\ helperCalls = 0
    /\ AuthIdle /\ MailIdle /\ DbIdle /\ UpdIdle /\ SetIdle /\ TblIdle /\ ViewIdle /\ RepIdle
    /\ NoteIdle /\ UmIdle

\* A helper is called on the schema at hand, as baseSchema, editorSchema,
\* openAdd and orderedSchema call one helper on the result of another.
CallHelper(name) ==
    /\ helperCalls < MaxHelperCalls
    /\ helperCalls' = helperCalls + 1
    /\ helperName' = name
    /\ helperInput' = helperOutput
    /\ helperOutput' = ApplyHelper(name, helperOutput)
    /\ SchFrame

Call_withReferringProviderPractice == CallHelper("withReferringProviderPractice")

Call_withReasonNotesAfterReferringProvider ==
    CallHelper("withReasonNotesAfterReferringProvider")

Call_withStatusEmailSentAfterApptDateTime ==
    CallHelper("withStatusEmailSentAfterApptDateTime")

Call_withStatusAfterApptDateTime == CallHelper("withStatusAfterApptDateTime")

Call_orderSchema == CallHelper("orderSchema")

SchNext ==
    \/ Call_withReferringProviderPractice
    \/ Call_withReasonNotesAfterReferringProvider
    \/ Call_withStatusEmailSentAfterApptDateTime
    \/ Call_withStatusAfterApptDateTime
    \/ Call_orderSchema

SpecSchema == SchInit /\ [][SchNext]_vars

\* ---- claims on the schema helpers

\* Every column of the input is in the output exactly once.
C15_KeepsColumns ==
    \A i \in 1..Len(helperInput) :
      Cardinality({j \in 1..Len(helperOutput) : helperOutput[j] = helperInput[i]}) = 1

\* The output without the columns whose keys the input has not is the input;
\* the two helpers that move columns give as many columns as they get.
C15_InsertOnly ==
    SelectSeq(helperOutput, LAMBDA c : c.key \in SchemaKeys(helperInput)) = helperInput

C15_PermutationOnly == Len(helperOutput) = Len(helperInput)

\* The inserted columns are the wanted ones the input has not, each once, in
\* the order of wanted, in the places right after the column with key after.
C15_InsertedAfter(after, wanted) ==
    LET at == KeyIndex(helperInput, after)
        missing == SelectSeq(wanted, LAMBDA k : k \notin SchemaKeys(helperInput))
    IN  /\ C15_InsertOnly
        /\ IF at = 0 THEN helperOutput = helperInput
           ELSE /\ Len(helperOutput) = Len(helperInput) + Len(missing)
                /\ helperOutput[at].key = after
                /\ \A n \in 1..Len(missing) : helperOutput[at + n].key = missing[n]

C15_Practice ==
    LET at == ReferringProviderIndex(helperInput)
    IN  /\ C15_InsertOnly
        /\ IF at = 0 \/ REFERRING_PROVIDER_PRACTICE_KEY \in SchemaKeys(helperInput)
           THEN helperOutput = helperInput
           ELSE /\ Len(helperOutput) = Len(helperInput) + 1
                /\ helperOutput[at].key = REFERRING_PROVIDER_PRACTICE_KEY
                /\ helperOutput[at + 1] = helperInput[at]

C15_Ordered ==
    LET leading == SelectSeq(orderSchema_firstKeys,
                             LAMBDA k : k \in SchemaKeys(helperInput))
        extras == SelectSeq(<<"reason", "notes">>, LAMBDA k : k \in SchemaKeys(helperInput))
        head == leading \o extras
        headSet == {head[i] : i \in 1..Len(head)}
    IN  /\ C15_PermutationOnly
        /\ \A i \in 1..Len(head) : helperOutput[i].key = head[i]
        /\ SubSeq(helperOutput, Len(head) + 1, Len(helperOutput))
             = SelectSeq(helperInput, LAMBDA c : c.key \notin headSet)

\* C15: on every specialty schema each schema helper is idempotent and
\* neither drops nor duplicates a column; the practice column goes in once,
\* right before the referral provider column and only where that column is;
\* status, statusUpdatedAt and emailSentAt go in once, right after
\* apptDateTime in that order; orderSchema gives a permutation that starts
\* with the leading keys present, then reason and notes, then the rest in
\* their order.
C15_SchemaHelpers ==
    helperName # "" =>
      /\ ApplyHelper(helperName, helperOutput) = helperOutput
      /\ C15_KeepsColumns
      /\ \A i, j \in 1..Len(helperOutput) :
           helperOutput[i].key = helperOutput[j].key => i = j
      /\ helperName = "withReferringProviderPractice" => C15_Practice
      /\ helperName = "withReasonNotesAfterReferringProvider" => C15_PermutationOnly
      /\ helperName = "withStatusEmailSentAfterApptDateTime" =>
           C15_InsertedAfter("apptDateTime", <<"status", "statusUpdatedAt", "emailSentAt">>)
      /\ helperName = "withStatusAfterApptDateTime" =>
           C15_InsertedAfter("apptDateTime", <<"status">>)
      /\ helperName = "orderSchema" => C15_Ordered

\* orderSchema has moved columns of a schema that has got the practice column
\* and the three status columns from the helpers before it.
C15_Witness ==
    /\ helperName = "orderSchema"
    /\ helperOutput # helperInput
    /\ {REFERRING_PROVIDER_PRACTICE_KEY, "status", "statusUpdatedAt", "emailSentAt"}
         \subseteq SchemaKeys(helperOutput)
    /\ helperCalls = 3

\* ---- Reports page: rows, filters and the week-by-week trend

\* The calendar of the model; a local day is counted from 2024-04-29, a
\* Monday, so the first text is day -14.
CalendarTexts ==
    <<"2024-04-15", "2024-04-16", "2024-04-17", "2024-04-18", "2024-04-19", "2024-04-20",
      "2024-04-21", "2024-04-22", "2024-04-23", "2024-04-24", "2024-04-25", "2024-04-26",
      "2024-04-27", "2024-04-28", "2024-04-29", "2024-04-30", "2024-05-01", "2024-05-02",
      "2024-05-03", "2024-05-04", "2024-05-05", "2024-05-06", "2024-05-07", "2024-05-08",
      "2024-05-09", "2024-05-10", "2024-05-11", "2024-05-12", "2024-05-13", "2024-05-14">>

CalendarDays == {i - 15 : i \in 1..Len(CalendarTexts)}

isNonEmptyString(v) == v # None /\ Trim(v[1]) # ""

\* The Date it returns is at local midnight and is kept as its local day.
parseDateInputValue(v, offset) ==
    IF ~isNonEmptyString(v) THEN None
    ELSE IF NewDate(v[1]) = None THEN None
    ELSE Some(LocalDay(NewDate(v[1])[1], offset))

\* A Date is given as its local day: setHours(0, 0, 0, 0) keeps the day.
startOfWeekMonday(d) ==
    LET day == GetDay(d)
        diff == (day + 6) % 7
    IN  d - diff

startOfWeekLocal(d) ==
    LET day == GetDay(d)
        diff == (day + 6) % 7
    IN  d - diff

\* Year, month and day of the local day, as text.
formatDateYYYYMMDD(d) == CalendarTexts[d + 15]

RepRow(specialty, received) ==
    [specialty |-> specialty, row |-> [dateReferralReceived |-> received]]

repFilteredRows(rows, filter, from, to, offset) ==
    LET fromDate == IF from # "" THEN parseDateInputValue(Some(from), offset) ELSE None
        toDate == IF to # "" THEN parseDateInputValue(Some(to), offset) ELSE None
        toInclusive == IF toDate # None THEN Some(toDate[1] + 1) ELSE None
        Keeps(x) ==
            LET received == parseDateInputValue(x.row.dateReferralReceived, offset)
            IN  IF filter # "__all__" /\ x.specialty # filter THEN FALSE
                ELSE IF fromDate = None /\ toInclusive = None THEN TRUE
                ELSE IF received = None THEN FALSE
                ELSE IF fromDate # None /\ received[1] < fromDate[1] THEN FALSE
                ELSE IF toInclusive # None /\ received[1] >= toInclusive[1] THEN FALSE
                ELSE TRUE
    IN  SelectSeq(rows, Keeps)

\* The bucket key of a row, None where the loop skips the row.
WeekKey(x, offset) ==
    LET received == parseDateInputValue(x.row.dateReferralReceived, offset)
    IN  IF received = None THEN None
        ELSE Some(formatDateYYYYMMDD(startOfWeekMonday(received[1])))

\* a[0].localeCompare(b[0]) on the keys: texts of year, month and day
\* compare as their days do.
KeyRank(key) == CHOOSE i \in 1..Len(CalendarTexts) : CalendarTexts[i] = key

weeklyTrendItems(filtered, offset) ==
    LET keys == {WeekKey(filtered[i], offset)[1] :
                    i \in {j \in 1..Len(filtered) : WeekKey(filtered[j], offset) # None}}
        count(key) == Cardinality({i \in 1..Len(filtered) :
                                      WeekKey(filtered[i], offset) = Some(key)})
        place(key) == Cardinality({k \in keys : KeyRank(k) <= KeyRank(key)})
    IN  [n \in 1..Cardinality(keys) |->
           LET key == CHOOSE k \in keys : place(k) = n IN <<key, count(key)>>]

\* ---- the reports page

MaxRepRows == 2

\* What the 'referrals' table holds for the user: the specialty and the data
\* of a referral; 'Podiatry' is not in SPECIALTIES.
RepRemoteRows ==
    {RepRow("Colonoscopy and EGD", Some("2024-05-05")),
     RepRow("Colonoscopy and EGD", Some("2024-05-06")),
     RepRow("Ortho", Some("2024-05-06")),
     RepRow("Ortho", Some("2024-05-09")),
     RepRow("Ortho", Some("2024-05-13")),
     RepRow("Ortho", Some("")),
     RepRow("Ortho", None),
     RepRow("Podiatry", Some("2024-05-07"))}

RepAnswers == UNION {[1..n -> RepRemoteRows] : n \in 0..MaxRepRows}

RepSpecialtyValues == {"__all__", "Colonoscopy and EGD", "Ortho"}

RepDateInputs == {"", "2024-05-06", "2024-05-12"}

\* The page of a signed-in user whose rows effect has run up to its await.
RepInit ==
    /\ authUser = "u1"
    /\ userAccessRow = Some([role |-> "editor", status |-> "active"])
    /\ session = "u1"
    /\ isLoading = FALSE
    /\ authInitPending = FALSE
    /\ access = fetchUserAccess(FALSE, "u1", FALSE, userAccessRow)
    /\ loading = FALSE
    /\ refreshes = <<>>
    /\ path = "/reports"
    /\ urlReason = ""
    /\ hasRecovery = FALSE
    /\ allRows = <<>>
    /\ repDateFrom = ""
    /\ repDateTo = ""
    /\ specialtyFilter = "__all__"
    /\ isLoadingRows = TRUE
    /\ repRowsError = None
    /\ \E offset \in ZoneOffsets :
         /\ timeZoneOffset = offset
         /\ searchBy = "__all__"
         /\ searchText = ""
         /\ dateFilterKey = "dateReferralReceived"
         /\ dateFrom = ""
         /\ dateTo = ""
         /\ sortBy = "__none__"
         /\ sortDir = "asc"
         /\ pinnedKeys = <<>>
         /\ csvFile = None
    /\ MailIdle /\ DbIdle /\ UpdIdle /\ SetIdle /\ TblIdle /\ SchIdle
    /\ NoteIdle /\ UmIdle

\* The query answers: an error, or the rows of the user.
RepRowsLoaded ==
    /\ isLoadingRows
    /\ \E error \in BOOLEAN, data \in RepAnswers :
         IF error
         THEN /\ allRows' = <<>>
              /\ repRowsError' = Some(RemoteErrorMessage)
         ELSE /\ allRows' = SelectSeq(data, LAMBDA r :
                               \E i \in 1..Len(SPECIALTIES_Full) :
                                  SPECIALTIES_Full[i] = r.specialty)
              /\ UNCHANGED repRowsError
    /\ isLoadingRows' = FALSE
    /\ UNCHANGED <<repDateFrom, repDateTo, specialtyFilter>>
    /\ RepFrame

SetSpecialtyFilter(v) ==
    /\ v # specialtyFilter
    /\ specialtyFilter' = v
    /\ UNCHANGED <<allRows, repDateFrom, repDateTo, isLoadingRows, repRowsError>>
    /\ RepFrame

SetRepDateFrom(v) ==
    /\ v # repDateFrom
    /\ repDateFrom' = v
    /\ UNCHANGED <<allRows, repDateTo, specialtyFilter, isLoadingRows, repRowsError>>
    /\ RepFrame

SetRepDateTo(v) ==
    /\ v # repDateTo
    /\ repDateTo' = v
    /\ UNCHANGED <<allRows, repDateFrom, specialtyFilter, isLoadingRows, repRowsError>>
    /\ RepFrame

RepNext ==
    \/ RepRowsLoaded
    \/ \E v \in RepSpecialtyValues : SetSpecialtyFilter(v)
    \/ \E v \in RepDateInputs : SetRepDateFrom(v)
    \/ \E v \in RepDateInputs : SetRepDateTo(v)

SpecReports == RepInit /\ [][RepNext]_vars

\* ---- claims on the week-by-week trend

\* The calendar day a text of year, month and day names.
C16_DayOf(text) == (CHOOSE i \in 1..Len(CalendarTexts) : CalendarTexts[i] = text) - 15

C16_IsDate(v) == v # None /\ \E i \in 1..Len(CalendarTexts) : CalendarTexts[i] = v[1]

\* The Monday of the week of a day: the last Monday not after it.
C16_MondayOf(d) == CHOOSE m \in (d - 6)..d : GetDay(m) = 1

C16_WeekStartIsMonday ==
    \A d \in {c \in CalendarDays : c >= -8} :
      /\ startOfWeekMonday(d) = C16_MondayOf(d)
      /\ startOfWeekLocal(d) = C16_MondayOf(d)
      /\ GetDay(d) = 0 => startOfWeekMonday(d) = d - 6

C16_Buckets ==
    LET filtered == repFilteredRows(allRows, specialtyFilter, repDateFrom, repDateTo,
                                    timeZoneOffset)
        items == weeklyTrendItems(filtered, timeZoneOffset)
        dated == {i \in 1..Len(filtered) : C16_IsDate(filtered[i].row.dateReferralReceived)}
        monday(i) == formatDateYYYYMMDD(
                        C16_MondayOf(C16_DayOf(filtered[i].row.dateReferralReceived[1])))
    IN  /\ \A i \in dated :
             /\ Cardinality({n \in 1..Len(items) : items[n][1] = monday(i)}) = 1
             /\ \A n \in 1..Len(items) :
                  items[n][1] = monday(i)
                    => items[n][2] = Cardinality({j \in dated : monday(j) = monday(i)})
        /\ \A n \in 1..Len(items) : \E i \in dated : items[n][1] = monday(i)
        /\ \A n \in 1..(Len(items) - 1) : KeyRank(items[n][1]) < KeyRank(items[n + 1][1])

\* C16: startOfWeekMonday and startOfWeekLocal give the Monday of the week
\* of every date (a Sunday goes six days back), and in the week-by-week trend
\* every filtered row with a valid Date Referral Received is counted in
\* exactly one bucket keyed by that Monday, the buckets being in ascending
\* order and their counts summing to the number of such rows.
C16_TrendByMonday == C16_WeekStartIsMonday /\ C16_Buckets

\* ---- Referral table page: the editor with the status inputs

\* referrals_colonoscopy_egd with a referral that has a status.
EdRemoteTable ==
    <<[RemoteReferral(1, Some("Dr Adams"), Some(1), Some("Elko Clinic")) EXCEPT
          !.status = Some("IN_PROGRESS"),
          !.status_updated_at = Some("2024-04-30T09:00:00.000Z")],
      RemoteReferral(2, Some("Dr Who"), None, Some(""))>>

\* The page of a signed-in editor, mounted, its two queries in flight.
EdInit ==
    /\ authUser = "u1"
    /\ userAccessRow = Some([role |-> "editor", status |-> "active"])
    /\ session = "u1"
    /\ isLoading = FALSE
    /\ authInitPending = FALSE
    /\ access = fetchUserAccess(FALSE, "u1", FALSE, userAccessRow)
    /\ loading = FALSE
    /\ refreshes = <<>>
    /\ path = "/"
    /\ urlReason = ""
    /\ hasRecovery = FALSE
    /\ dbProviders = SetDirectory
    /\ dbReferrals = [s \in {SPECIALTIES[i] : i \in 1..Len(SPECIALTIES)} |->
                         IF s = "Colonoscopy and EGD" THEN EdRemoteTable ELSE <<>>]
    /\ activeSpecialty = SPECIALTIES[1]
    /\ tblRows = <<>>
    /\ isRowsLoading = TRUE
    /\ tblRowsError = None
    /\ saveError = None
    /\ providerOptions = <<>>
    /\ isEditorOpen = FALSE
    /\ editingId = None
    /\ editorSpecialty = SPECIALTIES[1]
    /\ tblDraft = createEmptyDraft(baseSchema(SPECIALTIES[1]))
    /\ providerLoadPending = TRUE
    /\ rowLoads = <<NewRowLoad(SPECIALTIES[1])>>
    /\ saves = <<>>
    /\ archives = <<>>
    /\ tblClicks = 0
    /\ MailIdle /\ UpdIdle /\ SetIdle /\ ViewIdle /\ RepIdle /\ SchIdle
    /\ NoteIdle /\ UmIdle

ApptInput == "2024-05-06T10:00"

\* The ways the user of the editor fills the form: those of FormFills, a
\* blank patient name, the Status select with and without the appointment
\* and the three communications, the three communications typed and the 1st
\* cleared again, and the 3rd communication typed on its own.
EditorFills ==
    FormFills
    \cup {<<InputStep("details", [CompleteDetails EXCEPT !.patientName = "  "]),
            InputStep("practice", OTHER_PROVIDER_PRACTICE_VALUE),
            InputStep("other", "Dr Who")>>,
          <<InputStep("details", CompleteDetails @@ [status |-> "NEW_REFERRAL"]),
            InputStep("practice", OTHER_PROVIDER_PRACTICE_VALUE),
            InputStep("other", "Dr Who")>>,
          <<InputStep("details", CompleteDetails),
            InputStep("practice", OTHER_PROVIDER_PRACTICE_VALUE)>>,
          <<InputStep("details", [status |-> "APPT_SCHEDULED"])>>,
          <<InputStep("details", [status |-> "APPT_SCHEDULED", apptDateTime |-> ApptInput])>>,
          <<InputStep("details", [status |-> "NO_RESPONSE_3_ATTEMPTS"])>>,
          <<InputStep("details", [status |-> "NO_RESPONSE_3_ATTEMPTS",
                                  firstPatientCommunication |-> ApptInput,
                                  secondPatientCommunication |-> ApptInput,
                                  thirdPatientCommunication |-> ApptInput])>>,
          <<InputStep("details", [status |-> "NO_RESPONSE_3_ATTEMPTS",
                                  firstPatientCommunication |-> ApptInput,
                                  secondPatientCommunication |-> ApptInput,
                                  thirdPatientCommunication |-> ApptInput,
                                  apptDateTime |-> ApptInput])>>,
          <<InputStep("details", [firstPatientCommunication |-> ApptInput,
                                  secondPatientCommunication |-> ApptInput,
                                  thirdPatientCommunication |-> ApptInput]),
            InputStep("details", [firstPatientCommunication |-> ""])>>,
          <<InputStep("details", [thirdPatientCommunication |-> ApptInput])>>,
          <<InputStep("details", [status |-> ""])>>,
          <<InputStep("details", [notes |-> "call back"])>>}

EdNext ==
    \/ ProviderOptionsLoaded
    \/ \E i \in 1..Len(rowLoads) : RowsLoaded(i)
    \/ \E i \in 1..Len(SPECIALTIES) : SetActiveSpecialty(SPECIALTIES[i])
    \/ openAdd
    \/ \E id \in TblRowIds : openEdit(id)
    \/ closeEditor
    \/ \E i \in 1..Len(SPECIALTIES) : SetEditorSpecialty(SPECIALTIES[i])
    \/ \E fill \in EditorFills : FillDraft(fill)
    \/ saveDraft
    \/ \E i \in 1..Len(saves) : SaveAnswered(i)

SpecEditor == EdInit /\ [][EdNext]_vars

\* ---- claims on saveDraft

\* What the claim asks of the draft of the open editor.
C17_Valid ==
    LET keys == SchemaKeys(editorSchema(editorSpecialty))
        practice == Trim(StrAt(tblDraft, REFERRING_PROVIDER_PRACTICE_KEY))
        providerId == Trim(StrAt(tblDraft, "referringProviderId"))
        status == Trim(StrAt(tblDraft, "status"))
    IN  /\ \A k \in {"dateReferralReceived", "patientName", "dob", "phoneNumber"} \cap keys :
             Trim(StrAt(tblDraft, k)) # ""
        /\ Len(PhoneDigits(StrAt(tblDraft, "phoneNumber"))) = 10
        /\ practice # ""
        /\ providerId # "" \/ practice = OTHER_PROVIDER_PRACTICE_VALUE
        /\ (providerId = OTHER_PROVIDER_VALUE \/ practice = OTHER_PROVIDER_PRACTICE_VALUE)
             => Trim(StrAt(tblDraft, "referringProvider")) # ""
        /\ status = "APPT_SCHEDULED" => Trim(StrAt(tblDraft, "apptDateTime")) # ""
        /\ status = "NO_RESPONSE_3_ATTEMPTS" =>
             /\ Trim(StrAt(tblDraft, "thirdPatientCommunication")) # ""
             /\ Trim(StrAt(tblDraft, "apptDateTime")) = ""

\* C17: saveDraft issues a write only for a draft whose required fields are
\* filled, whose phone number has ten digits, whose practice and provider are
\* set and whose status agrees with the appointment and the 3rd
\* communication; for every other draft it sets saveError, writes nothing and
\* leaves the editor open.
C17_SaveDraftValidates ==
    [][/\ Len(saves') > Len(saves) => C17_Valid
       /\ (saveDraft /\ ~C17_Valid) =>
            /\ saveError' # None
            /\ saves' = saves
            /\ dbReferrals' = dbReferrals
            /\ isEditorOpen'
            /\ tblDraft' = tblDraft]_vars

\* The draft of an edited row with the status Appt scheduled and no
\* appointment has been refused; no write is in flight.
C17_Witness ==
    /\ isEditorOpen
    /\ saveError = Some("Appt date/time must be set when Status is Appt scheduled")
    /\ ~C17_Valid
    /\ saves = <<>>
    /\ editingId # None

\* The write saveDraft has issued in this step.
C18_Issued == saves'[Len(saves')]

C18_PrevStatus == IF editingRow = None THEN "" ELSE Trim(StrAt(editingRow[1], "status"))

C18_PayloadTouchesIff ==
    Len(saves') > Len(saves) =>
      LET payload == C18_Issued.payload
          savedStatus == Str(payload["status"])
          touched == "status_updated_at" \in DOMAIN payload
      IN  /\ touched <=> /\ savedStatus # ""
                         /\ editingId = None \/ savedStatus # C18_PrevStatus
          /\ touched => payload["status_updated_at"] = Some(NowIso)

\* The store answers an edit whose payload has no status_updated_at.
C18_StoredUnchanged ==
    \A i \in 1..Len(saves) :
      (/\ saves' = RemoveAt(saves, i)
       /\ saves[i].editingId # None
       /\ "status_updated_at" \notin DOMAIN saves[i].payload)
      => LET before == dbReferrals[saves[i].targetSpecialty]
             after == dbReferrals'[saves[i].targetSpecialty]
         IN  /\ Len(after) = Len(before)
             /\ \A j \in 1..Len(before) :
                  after[j].status_updated_at = before[j].status_updated_at

\* C18: saveDraft writes status_updated_at, as the time of the save, iff the
\* saved status is non-empty and the record is new or the status differs
\* from that of the edited row; any other save has no status_updated_at in
\* its write, so the stored status_updated_at stays as it was.
C18_StatusUpdatedAt == [][C18_PayloadTouchesIff /\ C18_StoredUnchanged]_vars

\* An edit that kept the status IN_PROGRESS has been stored: the row has the
\* time of the save as updated_at and its status_updated_at of before.
C18_Witness ==
    LET stored == dbReferrals["Colonoscopy and EGD"][1]
    IN  /\ stored.updated_at = Some(NowIso)
        /\ stored.status = Some("IN_PROGRESS")
        /\ stored.notes = Some("call back")
        /\ stored.status_updated_at = Some("2024-04-30T09:00:00.000Z")

\* The draft the inputs of a fill leave; None where an input of the fill is
\* not on the screen or does not offer the value.
C19_Filled(fill) ==
    LET after[i \in 0..Len(fill)] ==
            IF i = 0 THEN tblDraft
            ELSE StepResult(after[i - 1], editorSpecialty, providerOptions, fill[i])
    IN  IF \A i \in 1..Len(fill) :
              StepOffered(after[i - 1], editorSpecialty, providerOptions, fill[i])
        THEN Some(after[Len(fill)]) ELSE None

\* C19: for every specialty of SPECIALTIES, also one whose schema has no
\* referral provider column, a referral can be added: once 'Add Referral'
\* has opened the editor there are inputs after which saveDraft passes its
\* validation and inserts the record.
C19_EverySpecialtyCanAdd ==
    (isEditorOpen /\ editingId = None) =>
      \E fill \in EditorFills :
        /\ C19_Filled(fill) # None
        /\ saveDraftError(C19_Filled(fill)[1], editorSchema(editorSpecialty)) = None

\* ---- claims on the email_sent_at update

\* The ids of the rows the email of a send lists: the provider's rows of the
\* active status that had no email_sent_at.
C20_Listed(send) == SendIds(unsentPatients(send.providerPatients[1]))

\* C20: after a successful send for a provider email_sent_at is set to the
\* send time on exactly the rows the email listed; rows of the provider that
\* already had an email_sent_at keep it.
C20_EmailSentAtOnListedRows ==
    [][\A i \in 1..Len(sends) :
         (/\ sends[i].await = "update"
          /\ Len(sends') = Len(sends)
          /\ sends'[i].await = "reloadRows")
         => \A j \in 1..Len(updRemoteRows) :
              updRemoteRows'[j].email_sent_at =
                 IF updRemoteRows[j].id \in C20_Listed(sends[i])
                 THEN Some(NowIso)
                 ELSE updRemoteRows[j].email_sent_at]_vars

\* ---- claims on the row an edit leaves on the page

\* The step is the answer to save i, an edit, with the write done.
C21_EditStored(i) ==
    /\ saves' = RemoveAt(saves, i)
    /\ saves[i].editingId # None
    /\ saveError' = None
    /\ ~isEditorOpen'

\* The stored records with the id the edit was for, after the step.
C21_Stored(save) ==
    SelectSeq(dbReferrals'[save.targetSpecialty],
              LAMBDA r : ToString(r.id) = save.editingId[1])

\* What a load of the active specialty makes of the record: the mapping of
\* the load effect, then the effect on providerOptions.
C21_Reloaded(r) ==
    SyncRowsWithProviders(<<mapReferralTableRecordToRow(r, baseSchema(activeSpecialty))>>,
                          providerOptions)[1]

\* The columns of `keys` agree between the page's row and the reloaded record.
C21_Agree(i, keys) ==
    LET save == saves[i]
        stored == C21_Stored(save)
    IN  (C21_EditStored(i) /\ save.targetSpecialty = activeSpecialty /\ Len(stored) = 1) =>
          \A j \in 1..Len(tblRows') :
            tblRows'[j]["id"] = save.editingId[1] =>
              \A k \in keys :
                LET local == IF k \in DOMAIN tblRows'[j] THEN tblRows'[j][k] ELSE ""
                IN  local = C21_Reloaded(stored[1])[k]

\* C21: after an edit is stored, the row that takes the edited row's place
\* has, in every column of the table's schema, the value a reload of the
\* stored record gives.
C21_SavedRowIsReloadedRow ==
    [][\A i \in 1..Len(saves) :
         C21_Agree(i, SchemaKeys(baseSchema(activeSpecialty)))]_vars

\* The same over the columns the editor has: all but Status Updated Date and
\* Email Sent At.
C21_EditorColumnsAgree ==
    [][\A i \in 1..Len(saves) :
         C21_Agree(i, SchemaKeys(baseSchema(activeSpecialty)) \ {"statusUpdatedAt", "emailSentAt"})]_vars

\* ---- Referral table page: writes in flight across a change of tab

\* referrals_singh_cancellations with a cancellation of its own; the store
\* numbers the rows of each table from 1.
RaceSinghTable ==
    <<[RemoteReferral(1, None, None, None) EXCEPT !.patient_name = Some("Cy Moss")]>>

\* The page of a signed-in editor, mounted, its two queries in flight, both
\* specialty tables holding referrals.
RaceInit ==
    /\ authUser = "u1"
    /\ userAccessRow = Some([role |-> "editor", status |-> "active"])
    /\ session = "u1"
    /\ isLoading = FALSE
    /\ authInitPending = FALSE
    /\ access = fetchUserAccess(FALSE, "u1", FALSE, userAccessRow)
    /\ loading = FALSE
    /\ refreshes = <<>>
    /\ path = "/"
    /\ urlReason = ""
    /\ hasRecovery = FALSE
    /\ dbProviders = SetDirectory
    /\ dbReferrals = [s \in {SPECIALTIES[i] : i \in 1..Len(SPECIALTIES)} |->
                         IF s = "Colonoscopy and EGD" THEN TblRemoteTable ELSE RaceSinghTable]
    /\ activeSpecialty = SPECIALTIES[1]
    /\ tblRows = <<>>
    /\ isRowsLoading = TRUE
    /\ tblRowsError = None
    /\ saveError = None
    /\ providerOptions = <<>>
    /\ isEditorOpen = FALSE
    /\ editingId = None
    /\ editorSpecialty = SPECIALTIES[1]
    /\ tblDraft = createEmptyDraft(baseSchema(SPECIALTIES[1]))
    /\ providerLoadPending = TRUE
    /\ rowLoads = <<NewRowLoad(SPECIALTIES[1])>>
    /\ saves = <<>>
    /\ archives = <<>>
    /\ tblClicks = 0
    /\ MailIdle /\ UpdIdle /\ SetIdle /\ ViewIdle /\ RepIdle /\ SchIdle
    /\ NoteIdle /\ UmIdle

SpecRace == RaceInit /\ [][TblNext]_vars

\* ---- claims on the rows list across a change of tab

\* No row query of the current tab is in flight.
C22_LatestLoadDone(loads) == \A i \in 1..Len(loads) : ~loads[i].isMounted

\* The row shows a record of the table: its id and its patient.
C22_IsRowOf(row, table) ==
    \E j \in 1..Len(table) :
      /\ ToString(table[j].id) = row["id"]
      /\ Str(table[j].patient_name) = StrAt(row, "patientName")

C22_RowsOfActive(rows, active, loads, db) ==
    C22_LatestLoadDone(loads) =>
      \A j \in 1..Len(rows) : C22_IsRowOf(rows[j], db[active])

C22_Ids(rows) == [j \in 1..Len(rows) |-> rows[j]["id"]]

\* The answer to a row query that a change of tab has superseded.
C22_SupersededLoadDiscarded ==
    \A i \in 1..Len(rowLoads) :
      (rowLoads' = RemoveAt(rowLoads, i) /\ ~rowLoads[i].isMounted) => tblRows' = tblRows

\* The completion of a save or an archive started under another tab, when
\* the list is that of the tab of now.
C22_ForeignWriteKeepsList ==
    C22_LatestLoadDone(rowLoads) =>
      /\ \A i \in 1..Len(saves) :
           (saves' = RemoveAt(saves, i) /\ saves[i].activeSpecialty # activeSpecialty)
           => C22_Ids(tblRows') = C22_Ids(tblRows)
      /\ \A i \in 1..Len(archives) :
           (archives' = RemoveAt(archives, i) /\ archives[i].specialty # activeSpecialty)
           => C22_Ids(tblRows') = C22_Ids(tblRows)

\* C22: once the latest row query has answered, every row of the list is a
\* row of the active specialty's table; a superseded answer is discarded and
\* a save or archive started under another tab neither adds a row to the
\* list nor removes one.
C22_RowsFollowActiveSpecialty ==
    [][/\ C22_RowsOfActive(tblRows', activeSpecialty', rowLoads', dbReferrals')
       /\ C22_SupersededLoadDiscarded
       /\ C22_ForeignWriteKeepsList]_vars

C22_OnlySupersededLoads == [][C22_SupersededLoadDiscarded]_vars

\* ---- claims on the rows and the provider directory

\* Every row of a directory provider has the directory's name and practice.
C23_Normalised(rows, options) ==
    \A j \in 1..Len(rows) :
      LET p == FindProvider(options, StrAt(rows[j], "referringProviderId"))
      IN  p # None =>
            /\ StrAt(rows[j], "referringProvider") = Trim(Str(p[1].referral_provider))
            /\ StrAt(rows[j], REFERRING_PROVIDER_PRACTICE_KEY) = Trim(Str(p[1].provider_practice))

\* C23: once the directory and the rows of the active specialty have both
\* loaded, in either order, every row of a directory provider carries the
\* directory's provider name and practice.
C23_RowsCarryDirectoryNames ==
    (/\ ~providerLoadPending
     /\ providerOptions # <<>>
     /\ C22_LatestLoadDone(rowLoads)
     /\ tblRowsError = None)
    => C23_Normalised(tblRows, providerOptions)

\* The same for the order in which the directory answers last.
C23_DirectoryAnswersLast ==
    [][(providerLoadPending /\ ~providerLoadPending' /\ providerOptions' # <<>>)
       => C23_Normalised(tblRows', providerOptions')]_vars

\* ---- claims on the contact attempts of a written record

\* The record has the column set.
C24_Set(payload, column) == column \in DOMAIN payload /\ payload[column] # None

C24_InOrder(payload) ==
    /\ C24_Set(payload, "communication_2") => C24_Set(payload, "communication_1")
    /\ C24_Set(payload, "communication_3") =>
         C24_Set(payload, "communication_1") /\ C24_Set(payload, "communication_2")

\* C24: every record saveDraft writes has communication_2 only with
\* communication_1, and communication_3 only with communication_1 and
\* communication_2.
C24_ContactAttemptsInOrder ==
    \A i \in 1..Len(saves) : C24_InOrder(saves[i].payload)

\* ---- claims on the practice of an Unknown or Other provider

\* The draft names the Unknown or the Other provider.
C25_UnknownOrOther(d) ==
    StrAt(d, "referringProviderId") \in {UNKNOWN_PROVIDER_VALUE, OTHER_PROVIDER_VALUE}

\* saveDraft issues a write for such a draft: the record has the practice of
\* the draft.
C25_PracticeWritten ==
    (Len(saves') > Len(saves) /\ C25_UnknownOrOther(tblDraft)
     /\ ProviderInputsShown(editorSpecialty))
    => saves'[Len(saves')].payload["provider_practice"]
         = Some(Trim(StrAt(tblDraft, REFERRING_PROVIDER_PRACTICE_KEY)))

\* Edit opens a row of such a provider: the draft as opened passes the
\* validation of saveDraft.
C25_ReopenedPasses ==
    (/\ ~isEditorOpen /\ isEditorOpen' /\ editingId' # None
     /\ ProviderInputsShown(editorSpecialty')
     /\ C25_UnknownOrOther(tblDraft'))
    => saveDraftError(tblDraft', editorSchema(editorSpecialty')) = None

\* C25: a referral saved with the Unknown or the Other provider is stored
\* with the practice chosen in the editor, and the saved row, opened for edit
\* again, passes validation unchanged.
C25_PracticeRoundTrip == [][C25_PracticeWritten /\ C25_ReopenedPasses]_vars

\* ---- Notepad page: two sessions on the notepad of one location

MaxNoteEntries == 3

NoteLocation == "CH_Elko"

NoteTexts == {"", "call Ann", "fax sent"}

\* sessionData.session.user.id of a session
NoteUserId(u) == IF u = "admin" THEN "u-admin" ELSE "u-user"

NoteEntry(ts, by, before, after) == [ts |-> ts, by |-> by, before |-> before, after |-> after]

NoteFrame == UNCHANGED <<authVars, mailVars, dbVars, updVars, setVars, tblVars, viewVars,
                         repVars, schVars, umVars>>

\* Both editors have mounted and their load effects have issued the query;
\* the location has no row yet, or a row with one edit in its history.
NoteInit ==
    /\ npStored \in {None,
                     Some([note_body |-> "call Ann",
                           edit_history |-> <<NoteEntry(0, "u-admin", "", "call Ann")>>])}
    /\ npText = [u \in NoteSessions |-> ""]
    /\ npLoadedText = [u \in NoteSessions |-> ""]
    /\ npHistory = [u \in NoteSessions |-> <<>>]
    /\ npIsLoading = [u \in NoteSessions |-> TRUE]
    /\ npIsSaving = [u \in NoteSessions |-> FALSE]
    /\ npError = [u \in NoteSessions |-> None]
    /\ npLoadPending = [u \in NoteSessions |-> TRUE]
    /\ npCall = [u \in NoteSessions |-> None]
    /\ npClock = 1
    /\ AuthIdle /\ MailIdle /\ DbIdle /\ UpdIdle /\ SetIdle /\ TblIdle /\ ViewIdle /\ RepIdle
    /\ SchIdle /\ UmIdle

\* The query of the load effect answers: maybeSingle gives the row or null.
NoteLoaded(u) ==
    /\ npLoadPending[u]
    /\ npLoadPending' = [npLoadPending EXCEPT ![u] = FALSE]
    /\ \E e \in BOOLEAN :
         IF e
         THEN /\ npError' = [npError EXCEPT ![u] = Some(RemoteErrorMessage)]
              /\ npText' = [npText EXCEPT ![u] = ""]
              /\ npLoadedText' = [npLoadedText EXCEPT ![u] = ""]
              /\ npHistory' = [npHistory EXCEPT ![u] = <<>>]
         ELSE LET nextBody == IF npStored = None THEN "" ELSE npStored[1].note_body
                  nextHistory == IF npStored = None THEN <<>> ELSE npStored[1].edit_history
              IN  /\ npText' = [npText EXCEPT ![u] = nextBody]
                  /\ npLoadedText' = [npLoadedText EXCEPT ![u] = nextBody]
                  /\ npHistory' = [npHistory EXCEPT ![u] = nextHistory]
                  /\ UNCHANGED npError
    /\ npIsLoading' = [npIsLoading EXCEPT ![u] = FALSE]
    /\ UNCHANGED <<npStored, npIsSaving, npCall, npClock>>
    /\ NoteFrame

\* onChange of the textarea
NoteSetText(u, v) ==
    /\ ~npIsLoading[u]
    /\ v # npText[u]
    /\ npText' = [npText EXCEPT ![u] = v]
    /\ UNCHANGED <<npStored, npLoadedText, npHistory, npIsLoading, npIsSaving, npError,
                   npLoadPending, npCall, npClock>>
    /\ NoteFrame

\* A click on Save or on Clear All (confirmed), up to the first await: the
\* call holds the loadedText, text and history of the render of the click.
NoteCallStarts(u, after) ==
    /\ ~npIsLoading[u]
    /\ ~npIsSaving[u]
    /\ npClock < MaxNoteEntries
    /\ npIsSaving' = [npIsSaving EXCEPT ![u] = TRUE]
    /\ npError' = [npError EXCEPT ![u] = None]
    /\ npCall' = [npCall EXCEPT ![u] =
                     Some([stage |-> "getSession", before |-> npLoadedText[u], after |-> after,
                           history |-> npHistory[u], nextHistory |-> <<>>])]
    /\ UNCHANGED <<npStored, npLoadedText, npHistory, npIsLoading, npLoadPending, npClock>>
    /\ NoteFrame

saveNote(u) ==
    /\ NoteCallStarts(u, npText[u])
    /\ UNCHANGED npText

clearAll(u) ==
    /\ NoteCallStarts(u, "")
    /\ npText' = [npText EXCEPT ![u] = ""]

\* getSession answers: the call stops with 'Not authenticated', or builds
\* nextHistory and issues the upsert.
NoteAfterGetSession(u) ==
    /\ npCall[u] # None
    /\ npCall[u][1].stage = "getSession"
    /\ \E answer \in {"session", "error", "no session"} :
         IF answer # "session"
         THEN /\ npError' = [npError EXCEPT ![u] = Some("Not authenticated")]
              /\ npIsSaving' = [npIsSaving EXCEPT ![u] = FALSE]
              /\ npCall' = [npCall EXCEPT ![u] = None]
              /\ UNCHANGED npClock
         ELSE LET call == npCall[u][1]
                  changed == call.before # call.after
                  nextHistory ==
                      IF changed
                      THEN Append(call.history,
                                  NoteEntry(npClock, NoteUserId(u), call.before, call.after))
                      ELSE call.history
              IN  /\ npCall' = [npCall EXCEPT ![u] =
                                   Some([call EXCEPT !.stage = "upsert",
                                                     !.nextHistory = nextHistory])]
                  /\ npClock' = IF changed THEN npClock + 1 ELSE npClock
                  /\ UNCHANGED <<npError, npIsSaving>>
    /\ UNCHANGED <<npStored, npText, npLoadedText, npHistory, npIsLoading, npLoadPending>>
    /\ NoteFrame

\* upsert({ location, note_body, edit_history }, { onConflict: 'location' })
NoteUpsert(call) == Some([note_body |-> call.after, edit_history |-> call.nextHistory])

\* The upsert answers.
NoteAfterUpsert(u) ==
    /\ npCall[u] # None
    /\ npCall[u][1].stage = "upsert"
    /\ npCall' = [npCall EXCEPT ![u] = None]
    /\ npIsSaving' = [npIsSaving EXCEPT ![u] = FALSE]
    /\ \E e \in BOOLEAN :
         IF e
         THEN /\ npError' = [npError EXCEPT ![u] = Some(RemoteErrorMessage)]
              /\ UNCHANGED <<npStored, npLoadedText, npHistory>>
         ELSE /\ npStored' = NoteUpsert(npCall[u][1])
              /\ npLoadedText' = [npLoadedText EXCEPT ![u] = npCall[u][1].after]
              /\ npHistory' = [npHistory EXCEPT ![u] = npCall[u][1].nextHistory]
              /\ UNCHANGED npError
    /\ UNCHANGED <<npText, npIsLoading, npLoadPending, npClock>>
    /\ NoteFrame

NoteNext ==
    \/ \E u \in NoteSessions : NoteLoaded(u)
    \/ \E u \in NoteSessions : \E v \in NoteTexts : NoteSetText(u, v)
    \/ \E u \in NoteSessions : saveNote(u)
    \/ \E u \in NoteSessions : clearAll(u)
    \/ \E u \in NoteSessions : NoteAfterGetSession(u)
    \/ \E u \in NoteSessions : NoteAfterUpsert(u)

SpecNotepad == NoteInit /\ [][NoteNext]_vars

\* ---- claims on the notepad

C26_StoredHistory(stored) == IF stored = None THEN <<>> ELSE stored[1].edit_history

\* The step is the answer to the upsert of session u, with the write done.
C26_Saved(u) ==
    /\ npCall[u] # None
    /\ npCall[u][1].stage = "upsert"
    /\ npCall'[u] = None
    /\ npError'[u] = None

C26_IsPrefix(a, b) == Len(a) <= Len(b) /\ SubSeq(b, 1, Len(a)) = a

\* C26: a successful save removes no entry of the history stored when it is
\* done, and one that changes the note adds exactly one entry to it, also
\* with two sessions on the same location.
C26_EditHistoryOnlyGrows ==
    [][\A u \in NoteSessions :
         C26_Saved(u) =>
           LET old == C26_StoredHistory(npStored)
               new == C26_StoredHistory(npStored')
           IN  /\ C26_IsPrefix(old, new)
               /\ npCall[u][1].before # npCall[u][1].after => Len(new) = Len(old) + 1]_vars

\* The same against the history the saving session holds: what it loaded,
\* or what its own last save stored.
C26_ExtendsOwnHistory ==
    [][\A u \in NoteSessions :
         C26_Saved(u) =>
           LET old == npHistory[u]
               new == C26_StoredHistory(npStored')
           IN  /\ C26_IsPrefix(old, new)
               /\ Len(new) = Len(old) + (IF npCall[u][1].before # npCall[u][1].after
                                         THEN 1 ELSE 0)]_vars

\* ---- User management page

MaxUmClicks == 4

UmRoles == <<"admin", "editor", "guest">>

UmLocations == <<"CH_Elko", "CH_LakeHavasu", "CH_Pahrump">>

UmStatuses == <<"active", "disabled">>

UmFrame == UNCHANGED <<authVars, mailVars, dbVars, updVars, setVars, tblVars, viewVars,
                       repVars, schVars, noteVars>>

\* user_access as the page finds it: an admin whose row still has a
\* location, and an editor of a location.
UmRemoteTable ==
    <<[user_id |-> "u1", email |-> Some("a@x.org"), display_name |-> None,
       role |-> Some("admin"), location |-> Some("CH_Elko"), status |-> Some("active")],
      [user_id |-> "u2", email |-> Some(" z@x.org"), display_name |-> Some("Cy"),
       role |-> Some("editor"), location |-> Some("CH_Pahrump"), status |-> Some("active")]>>

\* The page has mounted and its effect has called load().
UmInit ==
    /\ uaTable = UmRemoteTable
    /\ umRows = <<>>
    /\ umOriginalRows = <<>>
    /\ umIsLoading = TRUE
    /\ umError = None
    /\ umSuccess = None
    /\ umSavingUserId = None
    /\ isAddOpen = FALSE
    /\ addEmail = ""
    /\ addRole = "guest"
    /\ addLocation = ""
    /\ addStatus = "active"
    /\ addError = None
    /\ isAdding = FALSE
    /\ umLoads = 1
    /\ umSaves = <<>>
    /\ umInvite = None
    /\ umClicks = 0
    /\ AuthIdle /\ MailIdle /\ DbIdle /\ UpdIdle /\ SetIdle /\ TblIdle /\ ViewIdle /\ RepIdle
    /\ SchIdle /\ NoteIdle

\* A step of the user: the model follows the user for MaxUmClicks steps.
UmUserStep == umClicks < MaxUmClicks /\ umClicks' = umClicks + 1

\* nextRows of load()
ToUserAccessRow(r) ==
    LET email == Trim(Str(r.email))
        displayName == IF Trim(Str(r.display_name)) # "" THEN Trim(Str(r.display_name))
                       ELSE email
        statusRaw == ToLowerCase(Trim(Str(r.status)))
    IN  [userId |-> r.user_id, email |-> email, displayName |-> displayName,
         role |-> IF r.role = None THEN "guest" ELSE r.role[1],
         location |-> r.location,
         status |-> IF statusRaw = "disabled" THEN "disabled" ELSE "active"]

\* What load() sets when it is called.
UmLoadStarts ==
    /\ umIsLoading' = TRUE
    /\ umError' = None
    /\ umSuccess' = None
    /\ umLoads' = umLoads + 1

\* The query of load() answers; the load that inviteUser awaits ends the
\* invite.
UmLoadAnswered ==
    /\ umLoads > 0
    /\ umLoads' = umLoads - 1
    /\ \E e \in BOOLEAN :
         IF e
         THEN /\ umRows' = <<>>
              /\ umOriginalRows' = <<>>
              /\ umError' = Some(RemoteErrorMessage)
         ELSE /\ umRows' = [i \in 1..Len(uaTable) |-> ToUserAccessRow(uaTable[i])]
              /\ umOriginalRows' =
                   [id \in {uaTable[i].user_id : i \in 1..Len(uaTable)} |->
                       ToUserAccessRow(
                           uaTable[CHOOSE i \in 1..Len(uaTable) : uaTable[i].user_id = id])]
              /\ UNCHANGED umError
    /\ umIsLoading' = FALSE
    /\ IF umInvite # None /\ umInvite[1].stage = "load"
       THEN umInvite' = None /\ isAdding' = FALSE
       ELSE UNCHANGED <<umInvite, isAdding>>
    /\ UNCHANGED <<uaTable, umSuccess, umSavingUserId, isAddOpen, addEmail, addRole,
                   addLocation, addStatus, addError, umSaves, umClicks>>
    /\ UmFrame

UmRowIndex(userId) == {i \in 1..Len(umRows) : umRows[i].userId = userId}

UmRowInputFrame ==
    /\ UNCHANGED <<uaTable, umOriginalRows, umIsLoading, umError, umSuccess, umSavingUserId,
                   isAddOpen, addEmail, addRole, addLocation, addStatus, addError, isAdding,
                   umLoads, umSaves, umInvite>>
    /\ UmUserStep
    /\ UmFrame

\* onChange of the Role select of a row
SetRowRole(userId, next) ==
    /\ \E i \in UmRowIndex(userId) : umRows[i].role # next
    /\ umRows' = [i \in 1..Len(umRows) |->
                     IF umRows[i].userId = userId
                     THEN [umRows[i] EXCEPT !.role = next,
                                            !.location = IF next = "admin" THEN None ELSE @]
                     ELSE umRows[i]]
    /\ UmRowInputFrame

\* onChange of the Location select of a row: disabled for an admin row.
SetRowLocation(userId, v) ==
    /\ \E i \in UmRowIndex(userId) :
         /\ umRows[i].role # "admin"
         /\ umRows[i].location # (IF v # "" THEN Some(v) ELSE None)
    /\ umRows' = [i \in 1..Len(umRows) |->
                     IF umRows[i].userId = userId
                     THEN [umRows[i] EXCEPT !.location = IF v # "" THEN Some(v) ELSE None]
                     ELSE umRows[i]]
    /\ UmRowInputFrame

\* onChange of the Status select of a row
SetRowStatus(userId, next) ==
    /\ \E i \in UmRowIndex(userId) : umRows[i].status # next
    /\ umRows' = [i \in 1..Len(umRows) |->
                     IF umRows[i].userId = userId
                     THEN [umRows[i] EXCEPT !.status = IF next = "disabled" THEN "disabled"
                                                        ELSE "active"]
                     ELSE umRows[i]]
    /\ UmRowInputFrame

isRowDirty(r) ==
    IF r.userId \notin DOMAIN umOriginalRows THEN TRUE
    ELSE LET o == umOriginalRows[r.userId]
         IN  o.role # r.role \/ o.location # r.location \/ o.status # r.status

\* The Save button of a row, up to the await: an admin row is saved with no
\* location, whatever the row holds.
saveRow_KeepsLocation(userId) ==
    /\ \E i \in UmRowIndex(userId) :
         LET r == umRows[i]
             locationToSave == r.location
         IN  /\ isRowDirty(r)
             /\ umSavingUserId # Some(userId)
             /\ umSaves' = Append(umSaves,
                                  [payload |-> [user_id |-> userId, role |-> r.role,
                                                location |-> locationToSave,
                                                status |-> r.status],
                                   r |-> r])
    /\ umSavingUserId' = Some(userId)
    /\ umError' = None
    /\ umSuccess' = None
    /\ UNCHANGED <<uaTable, umRows, umOriginalRows, umIsLoading, isAddOpen, addEmail, addRole,
                   addLocation, addStatus, addError, isAdding, umLoads, umInvite>>
    /\ UmUserStep
    /\ UmFrame

saveRow(userId) ==
    /\ \E i \in UmRowIndex(userId) :
         LET r == umRows[i]
             locationToSave == IF r.role = "admin" THEN None ELSE r.location
         IN  /\ isRowDirty(r)
             /\ umSavingUserId # Some(userId)
             /\ umSaves' = Append(umSaves,
                                  [payload |-> [user_id |-> userId, role |-> r.role,
                                                location |-> locationToSave,
                                                status |-> r.status],
                                   r |-> r])
    /\ umSavingUserId' = Some(userId)
    /\ umError' = None
    /\ umSuccess' = None
    /\ UNCHANGED <<uaTable, umRows, umOriginalRows, umIsLoading, isAddOpen, addEmail, addRole,
                   addLocation, addStatus, addError, isAdding, umLoads, umInvite>>
    /\ UmUserStep
    /\ UmFrame

\* upsert(payload, { onConflict: 'user_id' }) on user_access
UpsertUserAccess(table, payload) ==
    IF \E i \in 1..Len(table) : table[i].user_id = payload.user_id
    THEN [i \in 1..Len(table) |->
             IF table[i].user_id = payload.user_id
             THEN [table[i] EXCEPT !.role = Some(payload.role),
                                   !.location = payload.location,
                                   !.status = Some(payload.status)]
             ELSE table[i]]
    ELSE Append(table, [user_id |-> payload.user_id, email |-> None, display_name |-> None,
                        role |-> Some(payload.role), location |-> payload.location,
                        status |-> Some(payload.status)])

\* The upsert of a saveRow answers.
UmSaveAnswered(i) ==
    LET save == umSaves[i]
    IN  /\ umSaves' = RemoveAt(umSaves, i)
        /\ \E e \in BOOLEAN :
             IF e
             THEN /\ umError' = Some(RemoteErrorMessage)
                  /\ UNCHANGED <<uaTable, umSuccess, umOriginalRows>>
             ELSE /\ uaTable' = UpsertUserAccess(uaTable, save.payload)
                  /\ umSuccess' = Some("Saved")
                  /\ umOriginalRows' =
                       [id \in (DOMAIN umOriginalRows) \cup {save.payload.user_id} |->
                           IF id = save.payload.user_id THEN save.r ELSE umOriginalRows[id]]
                  /\ UNCHANGED umError
        /\ umSavingUserId' = None
        /\ UNCHANGED <<umRows, umIsLoading, isAddOpen, addEmail, addRole, addLocation,
                       addStatus, addError, isAdding, umLoads, umInvite, umClicks>>
        /\ UmFrame

UmAddFormFrame ==
    /\ UNCHANGED <<uaTable, umRows, umOriginalRows, umIsLoading, umError, umSuccess,
                   umSavingUserId, isAdding, umLoads, umSaves, umInvite>>
    /\ UmUserStep
    /\ UmFrame

\* The "Add user" button
OpenAddUser ==
    /\ ~isAddOpen
    /\ addError' = None
    /\ isAddOpen' = TRUE
    /\ UNCHANGED <<addEmail, addRole, addLocation, addStatus>>
    /\ UmAddFormFrame

\* Cancel, or the backdrop of the modal
CloseAddUser ==
    /\ isAddOpen
    /\ isAddOpen' = FALSE
    /\ UNCHANGED <<addEmail, addRole, addLocation, addStatus, addError>>
    /\ UmAddFormFrame

UmEmailInputs == {" a@x.org", "  "}

SetAddEmail(v) ==
    /\ isAddOpen
    /\ v # addEmail
    /\ addEmail' = v
    /\ UNCHANGED <<isAddOpen, addRole, addLocation, addStatus, addError>>
    /\ UmAddFormFrame

\* onChange of the Role select of the modal
SetAddRole(next) ==
    /\ isAddOpen
    /\ next # addRole
    /\ addRole' = next
    /\ addLocation' = IF next = "admin" THEN "" ELSE addLocation
    /\ UNCHANGED <<isAddOpen, addEmail, addStatus, addError>>
    /\ UmAddFormFrame

\* onChange of the Location select of the modal: disabled for role admin.
SetAddLocation(v) ==
    /\ isAddOpen
    /\ addRole # "admin"
    /\ v # addLocation
    /\ addLocation' = v
    /\ UNCHANGED <<isAddOpen, addEmail, addRole, addStatus, addError>>
    /\ UmAddFormFrame

SetAddStatus(v) ==
    /\ isAddOpen
    /\ v # addStatus
    /\ addStatus' = IF v = "disabled" THEN "disabled" ELSE "active"
    /\ UNCHANGED <<isAddOpen, addEmail, addRole, addLocation, addError>>
    /\ UmAddFormFrame

\* The "Invite user" button, up to the first await.
inviteUser ==
    /\ isAddOpen
    /\ ~isAdding
    /\ umSuccess' = None
    /\ IF Trim(addEmail) = ""
       THEN /\ addError' = Some("Email is required")
            /\ UNCHANGED <<isAdding, umInvite>>
       ELSE /\ addError' = None
            /\ isAdding' = TRUE
            /\ umInvite' = Some([stage |-> "getSession", email |-> Trim(addEmail),
                                 addRole |-> addRole, addLocation |-> addLocation,
                                 addStatus |-> addStatus, body |-> None])
    /\ UNCHANGED <<uaTable, umRows, umOriginalRows, umIsLoading, umError, umSavingUserId,
                   isAddOpen, addEmail, addRole, addLocation, addStatus, umLoads, umSaves>>
    /\ UmUserStep
    /\ UmFrame

\* body of the request to admin-invite-user
InviteBody(call) ==
    [email |-> call.email, role |-> call.addRole,
     location |-> IF call.addRole = "admin" THEN None
                  ELSE IF call.addLocation # "" THEN Some(call.addLocation) ELSE None,
     status |-> call.addStatus]

\* getSession answers: the invite stops with a message, or sends the request.
InviteAfterGetSession ==
    /\ umInvite # None
    /\ umInvite[1].stage = "getSession"
    /\ \E answer \in {"token", "error", "no token"} :
         IF answer # "token"
         THEN /\ addError' = Some(IF answer = "error" THEN RemoteErrorMessage
                                  ELSE "Not authenticated")
              /\ isAdding' = FALSE
              /\ umInvite' = None
         ELSE /\ umInvite' = Some([umInvite[1] EXCEPT !.stage = "fetch",
                                                      !.body = Some(InviteBody(umInvite[1]))])
              /\ UNCHANGED <<addError, isAdding>>
    /\ UNCHANGED <<uaTable, umRows, umOriginalRows, umIsLoading, umError, umSuccess,
                   umSavingUserId, isAddOpen, addEmail, addRole, addLocation, addStatus,
                   umLoads, umSaves, umClicks>>
    /\ UmFrame

\* The row the function writes for an accepted invite.
InvitedRow(table, body) ==
    [user_id |-> "u" \o ToString(Len(table) + 1), email |-> Some(body.email),
     display_name |-> None, role |-> Some(body.role), location |-> body.location,
     status |-> Some(body.status)]

\* The request answers: a refusal, or the user is invited, the form is reset
\* and load() is called.
InviteAfterFetch ==
    /\ umInvite # None
    /\ umInvite[1].stage = "fetch"
    /\ \E ok \in BOOLEAN :
         IF ~ok
         THEN /\ addError' = Some("Invite failed")
              /\ isAdding' = FALSE
              /\ umInvite' = None
              /\ UNCHANGED <<uaTable, isAddOpen, addEmail, addRole, addLocation, addStatus,
                             umIsLoading, umError, umSuccess, umLoads>>
         ELSE /\ uaTable' = Append(uaTable, InvitedRow(uaTable, umInvite[1].body[1]))
              /\ isAddOpen' = FALSE
              /\ addEmail' = ""
              /\ addRole' = "guest"
              /\ addLocation' = ""
              /\ addStatus' = "active"
              /\ UmLoadStarts
              /\ umInvite' = Some([umInvite[1] EXCEPT !.stage = "load"])
              /\ UNCHANGED <<addError, isAdding>>
    /\ UNCHANGED <<umRows, umOriginalRows, umSavingUserId, umSaves, umClicks>>
    /\ UmFrame

UmUserIds == {"u1", "u2"}

UmNext ==
    \/ UmLoadAnswered
    \/ \E id \in UmUserIds : \E i \in 1..Len(UmRoles) : SetRowRole(id, UmRoles[i])
    \/ \E id \in UmUserIds : \E v \in {""} \cup {UmLocations[i] : i \in 1..Len(UmLocations)} :
         SetRowLocation(id, v)
    \/ \E id \in UmUserIds : \E i \in 1..Len(UmStatuses) : SetRowStatus(id, UmStatuses[i])
    \/ \E id \in UmUserIds : saveRow(id)
    \/ \E i \in 1..Len(umSaves) : UmSaveAnswered(i)
    \/ OpenAddUser
    \/ CloseAddUser
    \/ \E v \in UmEmailInputs : SetAddEmail(v)
    \/ \E i \in 1..Len(UmRoles) : SetAddRole(UmRoles[i])
    \/ \E v \in {""} \cup {UmLocations[i] : i \in 1..Len(UmLocations)} : SetAddLocation(v)
    \/ \E i \in 1..Len(UmStatuses) : SetAddStatus(UmStatuses[i])
    \/ inviteUser
    \/ InviteAfterGetSession
    \/ InviteAfterFetch

SpecUsers == UmInit /\ [][UmNext]_vars

\* ---- claims on the user management page

\* saveRow has issued an upsert in this step: an admin payload has no location.
C27_SaveRowWrites ==
    Len(umSaves') > Len(umSaves) =>
      LET payload == umSaves'[Len(umSaves')].payload
      IN  payload.role = "admin" => payload.location = None

\* inviteUser has sent its request in this step: an admin body has no location.
C27_InviteWrites ==
    (umInvite' # None /\ umInvite'[1].stage = "fetch" /\ umInvite # umInvite') =>
      LET body == umInvite'[1].body[1]
      IN  body.role = "admin" => body.location = None

\* The user has chosen role admin in a row in this step: the row has no location.
C27_RoleSelectClears ==
    (umClicks' # umClicks /\ Len(umRows') = Len(umRows)) =>
      \A i \in 1..Len(umRows) :
        (umRows'[i].role = "admin" /\ umRows[i].role # "admin") => umRows'[i].location = None

\* C27: every user_access write of the page with role admin has location
\* null: the role select clears the location of a row made admin, saveRow
\* saves null for an admin row whatever the row holds, and the invite request
\* sends null for role admin.
C27_AdminWritesHaveNoLocation ==
    [][C27_SaveRowWrites /\ C27_InviteWrites /\ C27_RoleSelectClears]_vars

\* A row loaded as admin with the location CH_Elko has been saved: the row on
\* the page still holds the location, the stored row has none.
C27_Witness ==
    /\ \E i \in 1..Len(umRows) :
         /\ umRows[i].userId = "u1"
         /\ umRows[i].role = "admin"
         /\ umRows[i].location = Some("CH_Elko")
    /\ uaTable[1].role = Some("admin")
    /\ uaTable[1].status = Some("disabled")
    /\ uaTable[1].location = None

====
